---------------------------- MODULE Spec2Model ----------------------------
(***************************************************************************)
(* World-map generation and validation of Medieval Rulers (Map System V2). *)
(*                                                                         *)
(* The generator (seedGenerator.ts), the validator (validation.ts) and the *)
(* selectors (selectors.ts) are modelled as one sequential program: a call *)
(* of generateWorldMapData walks through region growth (tiles -> counties  *)
(* -> duchies -> kingdoms), the de facto perturbation and the title and    *)
(* character assignment; its output is then validated and queried.         *)
(*                                                                         *)
(* Numbers are JavaScript numbers.  32-bit words are kept as two 16-bit    *)
(* halves [hi, lo] so that the xorshift and FNV arithmetic keeps its width.*)
(* Arrays are sequences; At(a, i) reads the 0-based index i.               *)
(***************************************************************************)
EXTENDS Integers, Sequences, FiniteSets, TLC

(***************************************************************************)
(* Bounds of the model.  The grid of the repository is 80 x 80 with 24 x 24*)
(* character names; the model keeps the code and shrinks the world.        *)
(***************************************************************************)
MAP_WIDTH == 3
MAP_HEIGHT == 2
MaxSeed == 3
MaxCounty == 5
MaxDuchy == 4
MaxKingdom == 3
FirstNameCount == 2
FamilyNameCount == 2

(***************************************************************************)
(* Program constants.                                                      *)
(***************************************************************************)
TILE_SIZE_PX == 10
CHUNK_SIZE == 20
MAP_VERSION == 2
DEFAULT_COUNTY_COUNT == 320
DEFAULT_DUCHY_COUNT == 52
DEFAULT_KINGDOM_COUNT == 7
Half == 65536

Max(a, b) == IF a >= b THEN a ELSE b

At(array, index) == array[index + 1]

Range(seq) == {seq[i] : i \in 1..Len(seq)}

(***************************************************************************)
(* 32-bit words.                                                           *)
(***************************************************************************)
RECURSIVE Xor16(_, _)
Xor16(a, b) ==
  IF a = 0 THEN b
  ELSE IF b = 0 THEN a
  ELSE ((a + b) % 2) + 2 * Xor16(a \div 2, b \div 2)

U32(hi, lo) == [hi |-> hi, lo |-> lo]

U32Xor(x, y) == U32(Xor16(x.hi, y.hi), Xor16(x.lo, y.lo))

\* x << k for 0 < k < 16, truncated to 32 bits
U32Shl(x, k) ==
  LET p == 2 ^ k
      q == 2 ^ (16 - k)
  IN  U32((x.hi * p + x.lo \div q) % Half, (x.lo * p) % Half)

\* x >>> 17
U32Shr17(x) == U32(0, x.hi \div 2)

\* ToInt32 of an integer n with |n| < 2^31, as the unsigned word of its bits
ToU32(n) ==
  IF n >= 0 THEN U32(n \div Half, n % Half)
  ELSE U32(Half - 1 - ((-n - 1) \div Half), Half - 1 - ((-n - 1) % Half))

COUNTY_BASE_SALT == U32(15470, 62322)
DEJURE_SALT == U32(42405, 42405)
DEFACTO_SALT == U32(23130, 23130)
CHARACTER_SALT == U32(32586, 31765)
NAME_SALT == U32(27947, 31221)
COUNTY_RNG_SALT == U32(40503, 31161)
DUCHY_RNG_SALT == U32(34283, 51819)
KINGDOM_RNG_SALT == U32(49842, 44597)

(***************************************************************************)
(* XorShift32.                                                             *)
(***************************************************************************)
\* constructor: this.state = (seed | 0) || 1
XorShift32(seed) == IF seed = U32(0, 0) THEN U32(0, 1) ELSE seed

XorShl(x, k) == U32Xor(x, U32Shl(x, k))

XorShr17(x) == U32Xor(x, U32Shr17(x))

\* the state after one call of next(): x ^= x << 13; x ^= x >>> 17; x ^= x << 5
NextState(state) == XorShl(XorShr17(XorShl(state, 13)), 5)

\* floor((x >>> 0) / 4294967296 * maxExclusive); the product is below 2^53 and
\* therefore exact in a double
Scaled(x, maxExclusive) ==
  IF maxExclusive <= 0
    THEN [throws |-> TRUE, value |-> 0, state |-> x]
    ELSE [throws |-> FALSE,
          value |-> (x.hi * maxExclusive + (x.lo * maxExclusive) \div Half) \div Half,
          state |-> x]

\* nextInt(maxExclusive): the value drawn and the state left behind
NextInt(state, maxExclusive) == Scaled(NextState(state), maxExclusive)


(***************************************************************************)
(* Grid adjacency.                                                         *)
(***************************************************************************)
tileNeighbors(tileId, width, height) ==
  LET x == tileId % width
      y == tileId \div width
  IN  (IF x > 0 THEN <<tileId - 1>> ELSE <<>>)
      \o (IF x + 1 < width THEN <<tileId + 1>> ELSE <<>>)
      \o (IF y > 0 THEN <<tileId - width>> ELSE <<>>)
      \o (IF y + 1 < height THEN <<tileId + width>> ELSE <<>>)

buildTileAdjacency(width, height) ==
  [t \in 1..(width * height) |-> tileNeighbors(t - 1, width, height)]

\* Array.from(set).sort((a, b) => a - b)
RECURSIVE SortedArray(_)
SortedArray(set) ==
  IF set = {} THEN <<>>
  ELSE LET least == CHOOSE v \in set : \A w \in set : v <= w
       IN  <<least>> \o SortedArray(set \ {least})

\* east and south edges of the grid, the pairs the scan of the tiles visits
GridEdges(width, height) ==
  {<<t, t + 1>> : t \in {u \in 0..(width * height - 1) : (u % width) + 1 < width}}
  \cup {<<t, t + width>> : t \in {u \in 0..(width * height - 1) : (u \div width) + 1 < height}}

buildRegionAdjacencyFromTiles(tileOwner, regionCount, width, height) ==
  LET edges == {e \in GridEdges(width, height) : At(tileOwner, e[1]) # At(tileOwner, e[2])}
      sets == [r \in 1..regionCount |->
                 {At(tileOwner, e[2]) : e \in {f \in edges : At(tileOwner, f[1]) = r - 1}}
                 \cup {At(tileOwner, e[1]) : e \in {f \in edges : At(tileOwner, f[2]) = r - 1}}]
  IN  [r \in 1..regionCount |-> SortedArray(sets[r])]

\* variant: sets[targetB].add(targetA) is left out
projectAdjacencyOneWay(sourceAdjacency, sourceToTarget, targetCount) ==
  LET edges == {e \in (0..(Len(sourceAdjacency) - 1)) \X (0..(Len(sourceAdjacency) - 1)) :
                  /\ e[2] \in Range(At(sourceAdjacency, e[1]))
                  /\ At(sourceToTarget, e[1]) # At(sourceToTarget, e[2])}
      sets == [r \in 1..targetCount |->
                 {At(sourceToTarget, e[2]) : e \in {f \in edges : At(sourceToTarget, f[1]) = r - 1}}]
  IN  [r \in 1..targetCount |-> SortedArray(sets[r])]

projectAdjacency(sourceAdjacency, sourceToTarget, targetCount) ==
  LET edges == {e \in (0..(Len(sourceAdjacency) - 1)) \X (0..(Len(sourceAdjacency) - 1)) :
                  /\ e[2] \in Range(At(sourceAdjacency, e[1]))
                  /\ At(sourceToTarget, e[1]) # At(sourceToTarget, e[2])}
      sets == [r \in 1..targetCount |->
                 {At(sourceToTarget, e[2]) : e \in {f \in edges : At(sourceToTarget, f[1]) = r - 1}}
                 \cup {At(sourceToTarget, e[1]) : e \in {f \in edges : At(sourceToTarget, f[2]) = r - 1}}]
  IN  [r \in 1..targetCount |-> SortedArray(sets[r])]

(***************************************************************************)
(* Region growth.                                                          *)
(***************************************************************************)
\* the for loop of buildDesiredSizes: one random target per bucket
RECURSIVE DesiredTargets(_, _, _, _, _)
DesiredTarget(bucketCount, base, variance, desired, draw) ==
  DesiredTargets(bucketCount, base, variance,
                 Append(desired, Max(1, base + draw.value - variance)), draw.state)

DesiredTargets(bucketCount, base, variance, desired, rng) ==
  IF Len(desired) = bucketCount THEN [desired |-> desired, rng |-> rng]
  ELSE DesiredTarget(bucketCount, base, variance, desired, NextInt(rng, variance * 2 + 1))

RECURSIVE Sum(_)
Sum(seq) == IF seq = <<>> THEN 0 ELSE Head(seq) + Sum(Tail(seq))

\* buildDesiredSizes up to the repair loop; floor(base * 0.35) is exact as
\* (base * 35) div 100 for every base below 180
DesiredSizes(total, loop) ==
  [desired |-> loop.desired, diff |-> total - Sum(loop.desired), rng |-> loop.rng]

buildDesiredSizes(total, bucketCount, rng) ==
  DesiredSizes(total,
               DesiredTargets(bucketCount, total \div bucketCount,
                              Max(1, ((total \div bucketCount) * 35) \div 100), <<>>, rng))

\* the body of "while (diff !== 0)" once index is drawn
DesiredRepair(st, draw) ==
  IF st.diff > 0
    THEN [st EXCEPT !.desired[draw.value + 1] = @ + 1, !.diff = @ - 1, !.rng = draw.state]
    ELSE IF At(st.desired, draw.value) > 1
      THEN [st EXCEPT !.desired[draw.value + 1] = @ - 1, !.diff = @ + 1, !.rng = draw.state]
      ELSE [st EXCEPT !.rng = draw.state]

\* one iteration of "while (diff !== 0)"
DesiredRepairStep(st) == DesiredRepair(st, NextInt(st.rng, Len(st.desired)))

\* the rejection sampling of chooseUniqueSeeds (seedCount <= totalNodes)
RECURSIVE chooseUniqueSeeds(_, _, _, _)
ChooseCandidate(totalNodes, seedCount, out, draw) ==
  chooseUniqueSeeds(totalNodes, seedCount,
                    IF draw.value \in Range(out) THEN out ELSE Append(out, draw.value),
                    draw.state)

chooseUniqueSeeds(totalNodes, seedCount, out, rng) ==
  IF Len(out) >= seedCount THEN [seeds |-> out, rng |-> rng]
  ELSE ChooseCandidate(totalNodes, seedCount, out, NextInt(rng, totalNodes))

removeAtSwap(buffer, index) ==
  SubSeq([buffer EXCEPT ![index + 1] = buffer[Len(buffer)]], 1, Len(buffer) - 1)

\* the ids 0..count-1 in ascending order
Ids(count) == [i \in 1..count |-> i - 1]

\* the inner loop of regionGrow: pick frontier nodes of the chosen region
\* until one of them has an unclaimed neighbour (claimed = that neighbour)
\* or the frontier is empty (claimed = -1)
RECURSIVE ExpandFrontier(_, _, _, _)
\* variant: the claimed node is not pushed on the frontier
ClaimNeighborNoPush(frontier, unclaimedNeighbors, choice) ==
  [frontier |-> frontier,
   claimed |-> At(unclaimedNeighbors, choice.value),
   rng |-> choice.state]

\* a neighbour is drawn and claimed: frontier.push(nextNode)
ClaimNeighbor(frontier, unclaimedNeighbors, choice) ==
  [frontier |-> Append(frontier, At(unclaimedNeighbors, choice.value)),
   claimed |-> At(unclaimedNeighbors, choice.value),
   rng |-> choice.state]

InspectNode(frontier, owner, adjacency, pick, unclaimedNeighbors) ==
  IF Len(unclaimedNeighbors) = 0
    THEN ExpandFrontier(removeAtSwap(frontier, pick.value), owner, adjacency, pick.state)
    ELSE ClaimNeighbor(frontier, unclaimedNeighbors,
                       NextInt(pick.state, Len(unclaimedNeighbors)))

\* variant: the neighbours are not filtered by owner
PickFrontierNodeAnyOwner(frontier, owner, adjacency, pick) ==
  InspectNode(frontier, owner, adjacency, pick, At(adjacency, At(frontier, pick.value)))

PickFrontierNode(frontier, owner, adjacency, pick) ==
  InspectNode(frontier, owner, adjacency, pick,
              SelectSeq(At(adjacency, At(frontier, pick.value)),
                        LAMBDA next : At(owner, next) = -1))

ExpandFrontier(frontier, owner, adjacency, rng) ==
  IF Len(frontier) = 0 THEN [frontier |-> frontier, claimed |-> -1, rng |-> rng]
  ELSE PickFrontierNode(frontier, owner, adjacency, NextInt(rng, Len(frontier)))

\* owner, regionSizes and frontiers once the seeds are chosen
SeedRegions(totalNodes, seedCount, desiredSizes, chosen) ==
  [owner |-> [n \in 1..totalNodes |->
                IF (n - 1) \in Range(chosen.seeds)
                  THEN CHOOSE r \in 0..(seedCount - 1) : At(chosen.seeds, r) = n - 1
                  ELSE -1],
   regionSizes |-> [r \in 1..seedCount |-> 1],
   desiredSizes |-> desiredSizes,
   frontiers |-> [r \in 1..seedCount |-> <<chosen.seeds[r]>>],
   seeds |-> chosen.seeds,
   unassigned |-> totalNodes - seedCount,
   stuck |-> FALSE,
   rng |-> chosen.rng]

\* regionGrow from the choice of the seeds to the start of the growth loop
RegionGrowSeed(totalNodes, seedCount, desiredSizes, rng) ==
  SeedRegions(totalNodes, seedCount, desiredSizes,
              chooseUniqueSeeds(totalNodes, seedCount, <<>>, rng))

\* the chosen region has grown by grown.claimed, or only lost frontier nodes
Expanded(st, regionId, grown) ==
  IF grown.claimed = -1
    THEN [st EXCEPT !.frontiers[regionId + 1] = grown.frontier,
                    !.rng = grown.rng]
    ELSE [st EXCEPT !.frontiers[regionId + 1] = grown.frontier,
                    !.owner[grown.claimed + 1] = regionId,
                    !.regionSizes[regionId + 1] = @ + 1,
                    !.unassigned = @ - 1,
                    !.rng = grown.rng]

\* variant: every region grows from the frontier of region 0
ExpandRegionFirstFrontier(st, adjacency, regionId, rng) ==
  Expanded(st, regionId, ExpandFrontier(At(st.frontiers, 0), st.owner, adjacency, rng))

ExpandRegion(st, adjacency, regionId, rng) ==
  Expanded(st, regionId, ExpandFrontier(At(st.frontiers, regionId), st.owner, adjacency, rng))

PickRegion(st, adjacency, candidates, draw) ==
  ExpandRegion(st, adjacency, At(candidates, draw.value), draw.state)

GrowFrom(st, adjacency, candidates) ==
  IF Len(candidates) = 0 THEN [st EXCEPT !.stuck = TRUE]
  ELSE PickRegion(st, adjacency, candidates, NextInt(st.rng, Len(candidates)))

\* preferred if it is not empty, fallback otherwise
Candidates(st, fallback) ==
  IF \E i \in 1..Len(fallback) : At(st.regionSizes, fallback[i]) < At(st.desiredSizes, fallback[i])
    THEN SelectSeq(fallback, LAMBDA r : At(st.regionSizes, r) < At(st.desiredSizes, r))
    ELSE fallback

\* one iteration of "while (unassigned > 0)"
RegionGrowStep(st, adjacency) ==
  GrowFrom(st, adjacency,
           Candidates(st, SelectSeq(Ids(Len(st.frontiers)), LAMBDA r : Len(At(st.frontiers, r)) > 0)))

(***************************************************************************)
(* Perturbation.                                                           *)
(***************************************************************************)
MAX_ATTEMPTS_FLOOR == 500
ATTEMPTS_PER_NODE == 120

buildBucketCounts(assignments, bucketCount) ==
  [b \in 1..bucketCount |-> Cardinality({i \in 1..Len(assignments) : assignments[i] = b - 1})]

\* Array.from(new Set(values)): the distinct values in order of first insertion
RECURSIVE InsertionOrder(_, _)
InsertionOrder(values, out) ==
  IF values = <<>> THEN out
  ELSE InsertionOrder(Tail(values),
         IF Head(values) \in Range(out) THEN out ELSE Append(out, Head(values)))

\* variant: the loop aims at one difference fewer
PerturbStartOneFewer(baseAssignments, bucketCount, targetDifferences, rng) ==
  [base |-> baseAssignments,
   out |-> baseAssignments,
   counts |-> buildBucketCounts(baseAssignments, bucketCount),
   changedIndices |-> {},
   targetDifferences |-> targetDifferences,
   desiredDifferences |-> Max(1, targetDifferences) - 1,
   maxAttempts |-> Max(MAX_ATTEMPTS_FLOOR, Len(baseAssignments) * ATTEMPTS_PER_NODE),
   attempts |-> 0,
   rng |-> rng]

\* perturbAssignments up to its loop
PerturbStart(baseAssignments, bucketCount, targetDifferences, rng) ==
  [base |-> baseAssignments,
   out |-> baseAssignments,
   counts |-> buildBucketCounts(baseAssignments, bucketCount),
   changedIndices |-> {},
   targetDifferences |-> targetDifferences,
   desiredDifferences |-> Max(1, targetDifferences),
   maxAttempts |-> Max(MAX_ATTEMPTS_FLOOR, Len(baseAssignments) * ATTEMPTS_PER_NODE),
   attempts |-> 0,
   rng |-> rng]

\* variant: an index is never deleted from the tracked set
TrackEveryMove(changedIndices, nodeId, newBucket, baseBucket) == changedIndices \cup {nodeId}

\* the tracked set after out[nodeId] has been written
TrackChange(changedIndices, nodeId, newBucket, baseBucket) ==
  IF newBucket = baseBucket THEN changedIndices \ {nodeId} ELSE changedIndices \cup {nodeId}

\* the node moves: out, counts and changedIndices are updated
MoveNode(st, nodeId, sourceBucket, targetBucket, rng) ==
  [st EXCEPT !.attempts = @ + 1,
             !.out[nodeId + 1] = targetBucket,
             !.counts[sourceBucket + 1] = @ - 1,
             !.counts[targetBucket + 1] = @ + 1,
             !.changedIndices = TrackChange(@, nodeId, targetBucket, At(st.base, nodeId)),
             !.rng = rng]

ChooseTarget(st, nodeId, candidates, choice) ==
  MoveNode(st, nodeId, At(st.out, nodeId), At(candidates, choice.value), choice.state)

\* the buckets of the neighbours other than the node's own, in insertion order
CandidateBuckets(st, adjacency, nodeId) ==
  InsertionOrder(
    SelectSeq([i \in 1..Len(At(adjacency, nodeId)) |-> At(st.out, At(adjacency, nodeId)[i])],
              LAMBDA b : b # At(st.out, nodeId)),
    <<>>)

\* variant: a pick without candidate buckets is not counted as an attempt
TryMoveUncounted(st, nodeId, candidates, rng) ==
  IF Len(candidates) = 0 THEN [st EXCEPT !.rng = rng]
  ELSE ChooseTarget(st, nodeId, candidates, NextInt(rng, Len(candidates)))

TryMove(st, nodeId, candidates, rng) ==
  IF Len(candidates) = 0 THEN [st EXCEPT !.attempts = @ + 1, !.rng = rng]
  ELSE ChooseTarget(st, nodeId, candidates, NextInt(rng, Len(candidates)))

\* variant: the size of the source bucket is not looked at
PickNodeAnyBucket(st, adjacency, pick) ==
  TryMove(st, pick.value, CandidateBuckets(st, adjacency, pick.value), pick.state)

PickNode(st, adjacency, pick) ==
  IF At(st.counts, At(st.out, pick.value)) <= 1
    THEN [st EXCEPT !.attempts = @ + 1, !.rng = pick.state]
    ELSE TryMove(st, pick.value, CandidateBuckets(st, adjacency, pick.value), pick.state)

\* one iteration of the loop of perturbAssignments
PerturbStep(st, adjacency) == PickNode(st, adjacency, NextInt(st.rng, Len(st.out)))

PerturbRunning(st) ==
  Cardinality(st.changedIndices) < st.desiredDifferences /\ st.attempts < st.maxAttempts

\* variant: the loop's result is returned whatever its differences
UnreachedNever(st) == FALSE

\* changedIndices.size < desiredDifferences after the loop: the call throws
Unreached(st) == Cardinality(st.changedIndices) < st.desiredDifferences

\* Math.max(1, Math.round(count * 0.1)); Math.round(count * 0.1) is
\* (count + 5) div 10 for every count below 7000
DifferenceCount(count) == Max(1, (count + 5) \div 10)

(***************************************************************************)
(* Titles and characters.                                                  *)
(***************************************************************************)
Ranks == <<"county", "duchy", "kingdom">>

\* the decimal digits of a non-negative integer, as `${n}` prints them
RECURSIVE Digits(_)
Digits(n) == IF n < 10 THEN <<n>> ELSE Append(Digits(n \div 10), n % 10)

RECURSIVE DigitsValue(_)
DigitsValue(digits) ==
  IF digits = <<>> THEN 0
  ELSE 10 * DigitsValue(SubSeq(digits, 1, Len(digits) - 1)) + digits[Len(digits)]

\* the string `${rank}:${entityId}`, kept as its prefix and its digits
buildTitleId(rank, entityId) == [rank |-> rank, digits |-> Digits(entityId)]

\* the string `character:${characterIndex + 1}`
buildCharacterId(characterIndex) == [prefix |-> "character", digits |-> Digits(characterIndex + 1)]

\* `${prefix} ${i + 1}`
buildNames(prefix, count) == [i \in 1..count |-> <<prefix, i>>]

\* Fisher-Yates over 0..count-1, from the last index down
RECURSIVE ShuffleFrom(_, _, _)
Swap(i, out, draw) ==
  ShuffleFrom(i - 1, [out EXCEPT ![i + 1] = out[draw.value + 1], ![draw.value + 1] = out[i + 1]],
              draw.state)

ShuffleFrom(i, out, rng) ==
  IF i <= 0 THEN [out |-> out, rng |-> rng]
  ELSE Swap(i, out, NextInt(rng, i + 1))

shuffledIndices(count, rng) == ShuffleFrom(count - 1, [i \in 1..count |-> i - 1], rng)

\* the combinations `${firstName} ${familyName}`, first names outermost
Combinations ==
  [c \in 1..(FirstNameCount * FamilyNameCount) |->
     <<"name", (c - 1) \div FamilyNameCount, (c - 1) % FamilyNameCount>>]

NamesInOrder(count, order) ==
  [i \in 1..count |->
     IF i - 1 < Len(Combinations) THEN At(Combinations, order[i]) ELSE <<"Ruler", i>>]

buildCharacterNames(count, rng) ==
  NamesInOrder(count, shuffledIndices(Len(Combinations), rng).out)

rankWeight(rank) == CASE rank = "county" -> 1 [] rank = "duchy" -> 2 [] rank = "kingdom" -> 3

\* JavaScript numbers that need not be integers: whole + (half ? 0.5 : 0)
Num(whole) == [whole |-> whole, half |-> FALSE]

NumberIsInteger(value) == ~value.half

FNV_OFFSET == U32(33052, 40389)

\* Math.imul(hash, 16777619), 16777619 = 256 * 2^16 + 403
FnvMul(hash) ==
  LET low == hash.lo * 403
  IN  U32((hash.hi * 403 + hash.lo * 256 + low \div Half) % Half, low % Half)

RECURSIVE hashString(_, _)
hashString(codes, hash) ==
  IF codes = <<>> THEN hash
  ELSE hashString(Tail(codes), FnvMul(U32(hash.hi, Xor16(hash.lo, Head(codes)))))

\* char codes
DigitCodes(digits) == [i \in 1..Len(digits) |-> 48 + digits[i]]

RankCodes(rank) ==
  CASE rank = "county" -> <<99, 111, 117, 110, 116, 121>>
    [] rank = "duchy" -> <<100, 117, 99, 104, 121>>
    [] rank = "kingdom" -> <<107, 105, 110, 103, 100, 111, 109>>

IntCodes(n) == IF n < 0 THEN <<45>> \o DigitCodes(Digits(-n)) ELSE DigitCodes(Digits(n))

\* `coa-${hashString(`${seed}:${titleId}`) as 8 hex digits}`
buildCoatOfArmsSeed(seed, titleId) ==
  <<"coa-", hashString(IntCodes(seed) \o <<58>> \o RankCodes(titleId.rank) \o <<58>>
                       \o DigitCodes(titleId.digits), FNV_OFFSET)>>

\* Math.round(255 * hueToRgb(p, q, t)) for s = 45, l = 42 (q = 0.609,
\* p = 0.231), t in units of 1/360000
ColorChannel(t) ==
  LET t1 == IF t < 0 THEN t + 360000 ELSE t
      tt == IF t1 > 360000 THEN t1 - 360000 ELSE t1
      v == IF tt < 60000 THEN 2310000 + 63 * tt
           ELSE IF tt < 180000 THEN 6090000
           ELSE IF tt < 240000 THEN 2310000 + 63 * (240000 - tt)
           ELSE 2310000
  IN  (255 * v + 5000000) \div 10000000

\* hslToHex((entityId * 137.508 + rankOffset) % 360, 45, 42); the integer
\* arithmetic agrees with the doubles for every entityId below 7000
colorForTitle(rank, entityId) ==
  LET rankOffset == IF rank = "county" THEN 17 ELSE IF rank = "duchy" THEN 131 ELSE 257
      hue == (entityId * 137508 + rankOffset * 1000) % 360000
  IN  ColorChannel(hue + 120000) * 65536 + ColorChannel(hue) * 256 + ColorChannel(hue - 120000)

NULL == [null |-> TRUE]

\* titleById.get(id)
TitleById(titles, id) == CHOOSE t \in Range(titles) : t.id = id

\* the loop of selectPrimaryTitleId over the held titles
RECURSIVE BestTitle(_, _, _)
\* variant: the first held title stays the best
BetterFirst(title, bestTitle) == IF bestTitle = NULL THEN title ELSE bestTitle

Better(title, bestTitle) ==
  IF bestTitle = NULL THEN title
  ELSE IF rankWeight(title.rank) > rankWeight(bestTitle.rank) THEN title
  ELSE IF rankWeight(title.rank) = rankWeight(bestTitle.rank)
          /\ title.entityId < bestTitle.entityId THEN title
  ELSE bestTitle

BestTitle(heldTitleIds, titles, bestTitle) ==
  IF heldTitleIds = <<>> THEN bestTitle
  ELSE BestTitle(Tail(heldTitleIds), titles,
                 Better(TitleById(titles, Head(heldTitleIds)), bestTitle))

selectPrimaryTitleId(heldTitleIds, titles) == BestTitle(heldTitleIds, titles, NULL).id

\* one random holder per entity out of its candidates, in entity order
RECURSIVE PickHolders(_, _, _)
PickHolder(candidateLists, holders, candidates, draw) ==
  PickHolders(candidateLists, Append(holders, At(candidates, draw.value)), draw.state)

PickAmong(candidateLists, holders, candidates, rng) ==
  IF Len(candidates) = 0 THEN [holders |-> holders, rng |-> rng, failed |-> TRUE]
  ELSE PickHolder(candidateLists, holders, candidates, NextInt(rng, Len(candidates)))

PickHolders(candidateLists, holders, rng) ==
  IF Len(holders) = Len(candidateLists) THEN [holders |-> holders, rng |-> rng, failed |-> FALSE]
  ELSE PickAmong(candidateLists, holders, candidateLists[Len(holders) + 1], rng)

\* the holders of the entities ids, in their order
HoldersOf(holders, ids) == [i \in 1..Len(ids) |-> At(holders, ids[i])]

\* the title ids of rank for the entities ids, in their order
TitleIds(rank, ids) == [i \in 1..Len(ids) |-> buildTitleId(rank, ids[i])]

\* countyHolderByCounty[countyOrder[characterIndex]] = characterIndex
CountyHolders(countyOrder) ==
  [c \in 1..Len(countyOrder) |->
     CHOOSE ch \in 0..(Len(countyOrder) - 1) : At(countyOrder, ch) = c - 1]

\* variant: every holder is a candidate for every target entity
CandidatesByAnyTarget(mapping, targetCount, holders) == [t \in 1..targetCount |-> holders]

\* per target entity, the holders of the source entities that map to it
CandidatesBy(mapping, targetCount, holders) ==
  [t \in 1..targetCount |->
     HoldersOf(holders, SelectSeq(Ids(Len(mapping)), LAMBDA e : At(mapping, e) = t - 1))]

\* the same through a Set per target: duplicates dropped, insertion order kept
CandidateSetsBy(mapping, targetCount, holders) ==
  [t \in 1..targetCount |-> InsertionOrder(CandidatesBy(mapping, targetCount, holders)[t], <<>>)]

\* variant: the de jure parent is written to both parent fields
TitleSharedParent(seed, rank, entityId, names, holders, deJureParent, deFactoParent) ==
  [id |-> buildTitleId(rank, entityId),
   rank |-> rank,
   entityId |-> entityId,
   name |-> At(names, entityId),
   mapColor |-> colorForTitle(rank, entityId),
   coatOfArmsSeed |-> buildCoatOfArmsSeed(seed, buildTitleId(rank, entityId)),
   holderCharacterId |-> buildCharacterId(At(holders, entityId)),
   deJureParentTitleId |-> deJureParent,
   deFactoParentTitleId |-> deJureParent]

Title(seed, rank, entityId, names, holders, deJureParent, deFactoParent) ==
  [id |-> buildTitleId(rank, entityId),
   rank |-> rank,
   entityId |-> entityId,
   name |-> At(names, entityId),
   mapColor |-> colorForTitle(rank, entityId),
   coatOfArmsSeed |-> buildCoatOfArmsSeed(seed, buildTitleId(rank, entityId)),
   holderCharacterId |-> buildCharacterId(At(holders, entityId)),
   deJureParentTitleId |-> deJureParent,
   deFactoParentTitleId |-> deFactoParent]

Titles(seed, countyNames, duchyNames, kingdomNames, deJureUpper, deFactoUpper, countyHolderByCounty, duchyHolderByDuchy, kingdomHolderByKingdom) ==
  [c \in 1..Len(countyNames) |->
     Title(seed, "county", c - 1, countyNames, countyHolderByCounty,
           buildTitleId("duchy", deJureUpper.countyToDuchy[c]),
           buildTitleId("duchy", deFactoUpper.countyToDuchy[c]))]
  \o [d \in 1..Len(duchyNames) |->
        Title(seed, "duchy", d - 1, duchyNames, duchyHolderByDuchy,
              buildTitleId("kingdom", deJureUpper.duchyToKingdom[d]),
              buildTitleId("kingdom", deFactoUpper.duchyToKingdom[d]))]
  \o [k \in 1..Len(kingdomNames) |->
        Title(seed, "kingdom", k - 1, kingdomNames, kingdomHolderByKingdom, NULL, NULL)]

\* variant: kingdoms are not pushed to their holder's list
HeldTitleIdsNoKingdoms(ch, countyOrder, duchyHolderByDuchy, kingdomHolderByKingdom) ==
  <<buildTitleId("county", At(countyOrder, ch))>>
  \o TitleIds("duchy", SelectSeq(Ids(Len(duchyHolderByDuchy)),
                                 LAMBDA d : At(duchyHolderByDuchy, d) = ch))

\* heldTitleIdsByCharacter[ch]: the county, then the duchies and the kingdoms
\* in the order in which their holders were picked
HeldTitleIds(ch, countyOrder, duchyHolderByDuchy, kingdomHolderByKingdom) ==
  <<buildTitleId("county", At(countyOrder, ch))>>
  \o TitleIds("duchy", SelectSeq(Ids(Len(duchyHolderByDuchy)),
                                 LAMBDA d : At(duchyHolderByDuchy, d) = ch))
  \o TitleIds("kingdom", SelectSeq(Ids(Len(kingdomHolderByKingdom)),
                                   LAMBDA k : At(kingdomHolderByKingdom, k) = ch))

Character(characterIndex, name, heldTitleIds, titles) ==
  [id |-> buildCharacterId(characterIndex),
   name |-> name,
   primaryTitleId |-> selectPrimaryTitleId(heldTitleIds, titles),
   heldTitleIds |-> heldTitleIds]

Characters(characterNames, countyOrder, duchyHolderByDuchy, kingdomHolderByKingdom, titles) ==
  [ch \in 1..Len(countyOrder) |->
     Character(ch - 1, characterNames[ch],
               HeldTitleIds(ch - 1, countyOrder, duchyHolderByDuchy, kingdomHolderByKingdom),
               titles)]

TitlesAndCharacters(characterNames, countyOrder, duchyHolderByDuchy, kingdomHolderByKingdom, titles) ==
  [error |-> "none",
   titles |-> titles,
   characters |-> Characters(characterNames, countyOrder, duchyHolderByDuchy,
                             kingdomHolderByKingdom, titles)]

AssignKingdoms(seed, countyNames, duchyNames, kingdomNames, deJureUpper, deFactoUpper, countyOrder, duchyHolderByDuchy, kingdomPick) ==
  IF kingdomPick.failed THEN [error |-> "kingdom has no duchy holder candidates"]
  ELSE TitlesAndCharacters(
         buildCharacterNames(Len(countyNames), XorShift32(U32Xor(ToU32(seed), NAME_SALT))),
         countyOrder, duchyHolderByDuchy, kingdomPick.holders,
         Titles(seed, countyNames, duchyNames, kingdomNames, deJureUpper, deFactoUpper,
                CountyHolders(countyOrder), duchyHolderByDuchy, kingdomPick.holders))

AssignDuchies(seed, countyNames, duchyNames, kingdomNames, deJureUpper, deFactoUpper, countyOrder, duchyPick) ==
  IF duchyPick.failed THEN [error |-> "duchy has no county holder candidates"]
  ELSE AssignKingdoms(seed, countyNames, duchyNames, kingdomNames, deJureUpper, deFactoUpper,
                      countyOrder, duchyPick.holders,
                      PickHolders(CandidateSetsBy(deFactoUpper.duchyToKingdom,
                                                  Len(kingdomNames), duchyPick.holders),
                                  <<>>, duchyPick.rng))

\* variant: the duchy candidates are collected under the de jure mapping
AssignCountiesDeJure(seed, countyNames, duchyNames, kingdomNames, deJureUpper, deFactoUpper, shuffled) ==
  AssignDuchies(seed, countyNames, duchyNames, kingdomNames, deJureUpper, deFactoUpper,
                shuffled.out,
                PickHolders(CandidatesBy(deJureUpper.countyToDuchy, Len(duchyNames),
                                         CountyHolders(shuffled.out)),
                            <<>>, shuffled.rng))

AssignCounties(seed, countyNames, duchyNames, kingdomNames, deJureUpper, deFactoUpper, shuffled) ==
  AssignDuchies(seed, countyNames, duchyNames, kingdomNames, deJureUpper, deFactoUpper,
                shuffled.out,
                PickHolders(CandidatesBy(deFactoUpper.countyToDuchy, Len(duchyNames),
                                         CountyHolders(shuffled.out)),
                            <<>>, shuffled.rng))

generateTitlesAndCharacters(seed, countyNames, duchyNames, kingdomNames, deJureUpper, deFactoUpper) ==
  AssignCounties(seed, countyNames, duchyNames, kingdomNames, deJureUpper, deFactoUpper,
                 shuffledIndices(Len(countyNames),
                                 XorShift32(U32Xor(ToU32(seed), CHARACTER_SALT))))

(***************************************************************************)
(* The program state.                                                      *)
(***************************************************************************)
VARIABLES
  pc,          \* position of the program
  options,     \* the options of the current generateWorldMapData call
  calls,       \* number of generateWorldMapData calls made
  level,       \* what the running regionGrow / perturbAssignments call computes
  rg,          \* locals of the running regionGrow call
  pt,          \* locals of the running perturbAssignments call
  gen,         \* locals of the running generateWorldMapData call
  world,       \* <<the returned WorldMapDataV2>>, <<>> before the return
  error,       \* message of the error thrown, "none" otherwise
  started,     \* the phases the current call has entered
  previous,    \* <<the output of the previous call>>
  payload,     \* <<the payload handed to validateWorldMapData>>
  validation,  \* <<the outcome of validateWorldMapData>>
  query,       \* <<the arguments of the last resolveEntityId call>>, or of
               \* the projectAdjacency call that is followed by itself
  resolved,    \* <<the value that call returned>>
  store        \* the state of the map store

vars == <<pc, options, calls, level, rg, pt, gen, world, error, started, previous,
          payload, validation, query, resolved, store>>

MaxCalls == 2

\* the iterations of the repair loop of buildDesiredSizes that are followed
MaxRepairs == 40

TileCount == MAP_WIDTH * MAP_HEIGHT

NoLocals == [none |-> TRUE]

NoGen == [tileToCounty |-> <<>>, countyNames |-> <<>>, countyAdjacency |-> <<>>,
          deJureUpper |-> NoLocals, deFactoUpper |-> NoLocals]

SeedInputs == {Num(s) : s \in 0..MaxSeed} \cup {[whole |-> 0, half |-> TRUE]}

OptionInputs ==
  [seed : SeedInputs, countyCount : 0..MaxCounty, duchyCount : 0..MaxDuchy,
   kingdomCount : 0..MaxKingdom]

\* the store's view before any call; the viewport fields are left out
INITIAL_VIEW ==
  [mode |-> "deJure", level |-> "county", hoveredTileId |-> NULL, selectedEntityId |-> <<>>]

\* state(): data null is <<>>, loadError null is "none"
InitialStore ==
  [data |-> <<>>, loadError |-> "none", view |-> INITIAL_VIEW, selectedTileId |-> NULL]

Init ==
  /\ pc = "idle"
  /\ options = [seed |-> Num(0), countyCount |-> 0, duchyCount |-> 0, kingdomCount |-> 0]
  /\ calls = 0
  /\ level = "none"
  /\ rg = NoLocals
  /\ pt = NoLocals
  /\ gen = NoGen
  /\ world = <<>>
  /\ error = "none"
  /\ started = {}
  /\ previous = <<>>
  /\ payload = <<>>
  /\ validation = <<>>
  /\ query = <<>>
  /\ resolved = <<>>
  /\ store = InitialStore

\* variant: kingdomCount is not compared with duchyCount
OptionsErrorNoKingdomBound(o) ==
  IF ~NumberIsInteger(o.seed) THEN "seed must be integer"
  ELSE IF o.countyCount <= 0 \/ o.duchyCount <= 0 \/ o.kingdomCount <= 0
    THEN "county/duchy/kingdom counts must be > 0"
  ELSE IF o.duchyCount > o.countyCount THEN "duchyCount must be <= countyCount"
  ELSE "none"

\* the precondition checks at the entry of generateWorldMapData
OptionsError(o) ==
  IF ~NumberIsInteger(o.seed) THEN "seed must be integer"
  ELSE IF o.countyCount <= 0 \/ o.duchyCount <= 0 \/ o.kingdomCount <= 0
    THEN "county/duchy/kingdom counts must be > 0"
  ELSE IF o.duchyCount > o.countyCount THEN "duchyCount must be <= countyCount"
  ELSE IF o.kingdomCount > o.duchyCount THEN "kingdomCount must be <= duchyCount"
  ELSE "none"

\* regionGrow from its entry to the repair loop of buildDesiredSizes
RegionGrowCall(totalNodes, seedCount, rng, adjacency) ==
  LET sizes == buildDesiredSizes(totalNodes, seedCount, rng)
  IN  [totalNodes |-> totalNodes, seedCount |-> seedCount, adjacency |-> adjacency,
       desired |-> sizes.desired, diff |-> sizes.diff, rng |-> sizes.rng, repairs |-> 0]

\* variant: the generator of the county base is seeded from a counter that
\* outlives the call
CountyRngSeedCarried(seed) ==
  U32Xor(U32Xor(ToU32(seed + calls), COUNTY_BASE_SALT), COUNTY_RNG_SALT)

\* the seed generateCountyBase and generateUpperHierarchy receive, xor the
\* constant of the generator they create
CountyRngSeed(seed) == U32Xor(U32Xor(ToU32(seed), COUNTY_BASE_SALT), COUNTY_RNG_SALT)
DuchyRngSeed(seed) == U32Xor(U32Xor(ToU32(seed), DEJURE_SALT), DUCHY_RNG_SALT)
KingdomRngSeed(seed) == U32Xor(U32Xor(ToU32(seed), DEJURE_SALT), KINGDOM_RNG_SALT)
DeFactoRngSeed(seed) == U32Xor(ToU32(seed), DEFACTO_SALT)

\* generateWorldMapData from its entry to the first regionGrow call
Enter(o) ==
  IF OptionsError(o) # "none"
    THEN /\ pc' = "failed"
         /\ error' = OptionsError(o)
         /\ level' = "none"
         /\ started' = {}
         /\ rg' = NoLocals
    ELSE /\ pc' = "desired"
         /\ error' = "none"
         /\ level' = "county"
         /\ started' = {"regionGrow"}
         /\ rg' = RegionGrowCall(TileCount, o.countyCount,
                                 XorShift32(CountyRngSeed(o.seed.whole)),
                                 buildTileAdjacency(MAP_WIDTH, MAP_HEIGHT))

GenerateWorldMapData ==
  /\ pc = "idle"
  /\ \E o \in OptionInputs :
       /\ options' = o
       /\ Enter(o)
  /\ calls' = 1
  /\ UNCHANGED <<pt, gen, world, previous, payload, validation, query, resolved, store>>

\* a second call with the options of the first
GenerateAgain ==
  /\ pc = "returned"
  /\ calls < MaxCalls
  /\ calls' = calls + 1
  /\ previous' = world
  /\ world' = <<>>
  /\ gen' = NoGen
  /\ pt' = NoLocals
  /\ Enter(options)
  /\ UNCHANGED <<options, payload, validation, query, resolved, store>>

(***************************************************************************)
(* regionGrow, one action per loop iteration.                              *)
(***************************************************************************)
\* the iterations of the repair loop are counted in rg.repairs and the loop is
\* followed for MaxRepairs of them
BuildDesiredSizesRepair ==
  /\ pc = "desired"
  /\ rg.diff # 0
  /\ rg.repairs < MaxRepairs
  /\ rg' = [DesiredRepairStep(rg) EXCEPT !.repairs = @ + 1]
  /\ UNCHANGED <<pc, options, calls, level, pt, gen, world, error, started, previous,
                 payload, validation, query, resolved, store>>

\* buildDesiredSizes returns; the seeds are chosen and own their nodes
RegionGrowSeeds ==
  /\ pc = "desired"
  /\ rg.diff = 0
  /\ IF rg.seedCount > rg.totalNodes
       THEN /\ pc' = "failed"
            /\ error' = "seedCount must be <= totalNodes"
            /\ rg' = rg
       ELSE /\ pc' = "grow"
            /\ error' = error
            /\ rg' = [adjacency |-> rg.adjacency]
                     @@ RegionGrowSeed(rg.totalNodes, rg.seedCount, rg.desired, rg.rng)
  /\ UNCHANGED <<options, calls, level, pt, gen, world, started, previous,
                 payload, validation, query, resolved, store>>

RegionGrowLoop ==
  /\ pc = "grow"
  /\ rg.unassigned > 0
  /\ LET next == RegionGrowStep(rg, rg.adjacency)
     IN  /\ rg' = next
         /\ pc' = IF next.stuck THEN "failed" ELSE pc
         /\ error' = IF next.stuck
                       THEN "regionGrow stuck: no expandable frontier while nodes remain"
                       ELSE error
  /\ UNCHANGED <<options, calls, level, pt, gen, world, started, previous,
                 payload, validation, query, resolved, store>>

UpperHierarchy(countyToDuchy, duchyToKingdom, duchyNames, kingdomNames) ==
  [countyToDuchy |-> countyToDuchy, duchyToKingdom |-> duchyToKingdom,
   duchyNames |-> duchyNames, kingdomNames |-> kingdomNames]

\* regionGrow returns owner to generateCountyBase / generateUpperHierarchy,
\* which run up to their next regionGrow or perturbAssignments call
RegionGrowReturn ==
  /\ pc = "grow"
  /\ rg.unassigned = 0
  /\ CASE level = "county" ->
            LET countyAdjacency ==
                  buildRegionAdjacencyFromTiles(rg.owner, options.countyCount,
                                                MAP_WIDTH, MAP_HEIGHT)
            IN  /\ gen' = [gen EXCEPT !.tileToCounty = rg.owner,
                                      !.countyNames = buildNames("County", options.countyCount),
                                      !.countyAdjacency = countyAdjacency]
                /\ level' = "duchy"
                /\ pc' = "desired"
                /\ rg' = RegionGrowCall(options.countyCount, options.duchyCount,
                                        XorShift32(DuchyRngSeed(options.seed.whole)),
                                        countyAdjacency)
                /\ UNCHANGED <<pt, started>>
       [] level = "duchy" ->
            /\ gen' = [gen EXCEPT !.deJureUpper =
                         UpperHierarchy(rg.owner, <<>>, <<>>, <<>>)]
            /\ level' = "kingdom"
            /\ pc' = "desired"
            /\ rg' = RegionGrowCall(options.duchyCount, options.kingdomCount,
                                    XorShift32(KingdomRngSeed(options.seed.whole)),
                                    projectAdjacency(gen.countyAdjacency, rg.owner,
                                                     options.duchyCount))
            /\ UNCHANGED <<pt, started>>
       [] level = "kingdom" ->
            /\ gen' = [gen EXCEPT !.deJureUpper =
                         UpperHierarchy(gen.deJureUpper.countyToDuchy, rg.owner,
                                        buildNames("Duchy", options.duchyCount),
                                        buildNames("Kingdom", options.kingdomCount))]
            /\ level' = "countyToDuchy"
            /\ pc' = "perturb"
            /\ started' = started \cup {"perturbAssignments"}
            /\ rg' = NoLocals
            /\ pt' = [adjacency |-> gen.countyAdjacency]
                     @@ PerturbStart(gen.deJureUpper.countyToDuchy, options.duchyCount,
                                     DifferenceCount(options.countyCount),
                                     XorShift32(DeFactoRngSeed(options.seed.whole)))
  /\ UNCHANGED <<options, calls, world, error, previous, payload, validation, query, resolved, store>>

(***************************************************************************)
(* perturbAssignments, one action per attempt.                             *)
(***************************************************************************)
PerturbAttempt ==
  /\ pc = "perturb"
  /\ PerturbRunning(pt)
  /\ pt' = PerturbStep(pt, pt.adjacency)
  /\ UNCHANGED <<pc, options, calls, level, rg, gen, world, error, started, previous,
                 payload, validation, query, resolved, store>>

\* the loop is left: the call throws or returns out to
\* generateDeFactoUpperHierarchy, which goes on to its next call or returns
PerturbReturn ==
  /\ pc = "perturb"
  /\ ~PerturbRunning(pt)
  /\ IF Unreached(pt)
       THEN /\ pc' = "failed"
            /\ error' = "perturbation did not reach target differences"
            /\ UNCHANGED <<level, pt, gen>>
       ELSE /\ error' = error
            /\ IF level = "countyToDuchy"
                 THEN /\ gen' = [gen EXCEPT !.deFactoUpper =
                                    UpperHierarchy(pt.out, <<>>, <<>>, <<>>)]
                      /\ level' = "duchyToKingdom"
                      /\ pc' = "perturb"
                      /\ pt' = [adjacency |-> projectAdjacency(gen.countyAdjacency, pt.out,
                                                               options.duchyCount)]
                               @@ PerturbStart(gen.deJureUpper.duchyToKingdom,
                                               options.kingdomCount,
                                               DifferenceCount(options.duchyCount), pt.rng)
                 ELSE /\ gen' = [gen EXCEPT !.deFactoUpper =
                                    UpperHierarchy(gen.deFactoUpper.countyToDuchy, pt.out,
                                                   gen.deJureUpper.duchyNames,
                                                   gen.deJureUpper.kingdomNames)]
                      /\ level' = "titles"
                      /\ pc' = "titles"
                      /\ pt' = pt
  /\ UNCHANGED <<options, calls, rg, world, started, previous, payload, validation,
                 query, resolved, store>>

(***************************************************************************)
(* The return value of generateWorldMapData.                               *)
(***************************************************************************)
\* variant: duchyToKingdom is copied where countyToDuchy belongs
HierarchyMixed(tileToCounty, countyNames, upper) ==
  [tileToCounty |-> tileToCounty, countyNames |-> countyNames,
   countyToDuchy |-> upper.duchyToKingdom, duchyToKingdom |-> upper.duchyToKingdom,
   duchyNames |-> upper.duchyNames, kingdomNames |-> upper.kingdomNames]

Hierarchy(tileToCounty, countyNames, upper) ==
  [tileToCounty |-> tileToCounty, countyNames |-> countyNames,
   countyToDuchy |-> upper.countyToDuchy, duchyToKingdom |-> upper.duchyToKingdom,
   duchyNames |-> upper.duchyNames, kingdomNames |-> upper.kingdomNames]

Grid(seed) ==
  [width |-> MAP_WIDTH, height |-> MAP_HEIGHT, tileSizePx |-> TILE_SIZE_PX,
   chunkSize |-> CHUNK_SIZE, seed |-> seed]

\* variant: deFacto gets the duchy assignment where the tile assignment belongs
WorldMapDataMixed(seed, countyBase, deJureUpper, deFactoUpper, titlesAndCharacters) ==
  [version |-> MAP_VERSION,
   grid |-> Grid(seed),
   modes |-> [deJure |-> Hierarchy(countyBase.tileToCounty, countyBase.countyNames, deJureUpper),
              deFacto |-> Hierarchy(deFactoUpper.countyToDuchy, countyBase.countyNames,
                                    deFactoUpper)],
   titles |-> titlesAndCharacters.titles,
   characters |-> titlesAndCharacters.characters]

WorldMapData(seed, countyBase, deJureUpper, deFactoUpper, titlesAndCharacters) ==
  [version |-> MAP_VERSION,
   grid |-> Grid(seed),
   modes |-> [deJure |-> Hierarchy(countyBase.tileToCounty, countyBase.countyNames, deJureUpper),
              deFacto |-> Hierarchy(countyBase.tileToCounty, countyBase.countyNames,
                                    deFactoUpper)],
   titles |-> titlesAndCharacters.titles,
   characters |-> titlesAndCharacters.characters]

\* generateTitlesAndCharacters runs and generateWorldMapData returns
GenerateTitles ==
  /\ pc = "titles"
  /\ started' = started \cup {"generateTitlesAndCharacters"}
  /\ LET titlesAndCharacters ==
           generateTitlesAndCharacters(options.seed.whole, gen.countyNames,
                                       gen.deJureUpper.duchyNames,
                                       gen.deJureUpper.kingdomNames,
                                       gen.deJureUpper, gen.deFactoUpper)
     IN  IF titlesAndCharacters.error # "none"
           THEN /\ pc' = "failed"
                /\ error' = titlesAndCharacters.error
                /\ world' = world
           ELSE /\ pc' = "returned"
                /\ error' = error
                /\ world' = <<WorldMapData(options.seed, gen, gen.deJureUpper,
                                           gen.deFactoUpper, titlesAndCharacters)>>
  /\ UNCHANGED <<options, calls, level, rg, pt, gen, previous, payload, validation,
                 query, resolved, store>>

(***************************************************************************)
(* validateWorldMapData.  A payload is a record of the WorldMapDataV2      *)
(* shape; every check answers TRUE when the assertions of the function     *)
(* pass.                                                                   *)
(***************************************************************************)
IsDigits(digits) == Len(digits) > 0 /\ \A i \in 1..Len(digits) : digits[i] \in 0..9

\* typeof value === 'string' && /^(county|duchy|kingdom):(\d+)$/ matches it
IsTitleIdString(value) ==
  /\ "rank" \in DOMAIN value
  /\ value.rank \in Range(Ranks)
  /\ IsDigits(value.digits)

isTitleRank(value) == value \in Range(Ranks)

\* typeof value === 'string' && /^character:\d+$/.test(value)
isCharacterId(value) ==
  /\ "prefix" \in DOMAIN value
  /\ value.prefix = "character"
  /\ IsDigits(value.digits)

parseTitleId(value) ==
  IF IsTitleIdString(value)
    THEN [rank |-> value.rank, entityId |-> DigitsValue(value.digits)]
    ELSE NULL

assertIndexBounds(indices, size) ==
  \A i \in 1..Len(indices) : indices[i] >= 0 /\ indices[i] < size

\* variant: the seen counts are not looked at
DistributionInBounds(indices, size) ==
  \A i \in 1..Len(indices) : indices[i] \in 0..(size - 1)

assertNonEmptyDistribution(indices, size) ==
  /\ \A i \in 1..Len(indices) : indices[i] \in 0..(size - 1)
  /\ \A id \in 0..(size - 1) : \E i \in 1..Len(indices) : indices[i] = id

\* variant: only the lengths are compared
NumberArrayLengthEqual(left, right) == Len(left) = Len(right)

assertNumberArrayEqual(left, right) ==
  /\ Len(left) = Len(right)
  /\ \A i \in 1..Len(left) : left[i] = right[i]

assertStringArrayEqual(left, right) ==
  /\ Len(left) = Len(right)
  /\ \A i \in 1..Len(left) : left[i] = right[i]

assertNumberArrayHasDifference(left, right) ==
  /\ Len(left) = Len(right)
  /\ \E i \in 1..Len(left) : left[i] # right[i]

validateHierarchy(raw, tileCount) ==
  /\ Len(raw.tileToCounty) = tileCount
  /\ Len(raw.countyNames) > 0
  /\ Len(raw.duchyNames) > 0
  /\ Len(raw.kingdomNames) > 0
  /\ Len(raw.countyToDuchy) = Len(raw.countyNames)
  /\ Len(raw.duchyToKingdom) = Len(raw.duchyNames)
  /\ assertIndexBounds(raw.tileToCounty, Len(raw.countyNames))
  /\ assertIndexBounds(raw.countyToDuchy, Len(raw.duchyNames))
  /\ assertIndexBounds(raw.duchyToKingdom, Len(raw.kingdomNames))
  /\ assertNonEmptyDistribution(raw.tileToCounty, Len(raw.countyNames))
  /\ assertNonEmptyDistribution(raw.countyToDuchy, Len(raw.duchyNames))
  /\ assertNonEmptyDistribution(raw.duchyToKingdom, Len(raw.kingdomNames))

\* the HierarchyData validateHierarchy returns
ValidatedHierarchy(raw) ==
  [tileToCounty |-> raw.tileToCounty, countyToDuchy |-> raw.countyToDuchy,
   duchyToKingdom |-> raw.duchyToKingdom, countyNames |-> raw.countyNames,
   duchyNames |-> raw.duchyNames, kingdomNames |-> raw.kingdomNames]

validateNullableTitleId(raw) == raw = NULL \/ IsTitleIdString(raw)

expectedCountByRank(rank, modes) ==
  IF rank = "county" THEN Len(modes.deJure.countyNames)
  ELSE IF rank = "duchy" THEN Len(modes.deJure.duchyNames)
  ELSE Len(modes.deJure.kingdomNames)

\* variant: seenTitleIds is not consulted
ValidTitleUnseen(raw, i, modes) ==
  /\ IsTitleIdString(raw[i].id)
  /\ isTitleRank(raw[i].rank)
  /\ raw[i].rank = parseTitleId(raw[i].id).rank
  /\ raw[i].entityId = parseTitleId(raw[i].id).entityId
  /\ raw[i].entityId >= 0
  /\ raw[i].entityId < expectedCountByRank(raw[i].rank, modes)
  /\ raw[i].name # <<>>
  /\ raw[i].mapColor >= 0
  /\ raw[i].mapColor <= 16777215
  /\ raw[i].coatOfArmsSeed # <<>>
  /\ isCharacterId(raw[i].holderCharacterId)
  /\ validateNullableTitleId(raw[i].deJureParentTitleId)
  /\ validateNullableTitleId(raw[i].deFactoParentTitleId)

\* the assertions of the loop body of validateTitles on titles[i]
ValidTitle(raw, i, modes) ==
  /\ IsTitleIdString(raw[i].id)
  /\ \A j \in 1..(i - 1) : raw[j].id # raw[i].id
  /\ isTitleRank(raw[i].rank)
  /\ raw[i].rank = parseTitleId(raw[i].id).rank
  /\ raw[i].entityId = parseTitleId(raw[i].id).entityId
  /\ raw[i].entityId >= 0
  /\ raw[i].entityId < expectedCountByRank(raw[i].rank, modes)
  /\ raw[i].name # <<>>
  /\ raw[i].mapColor >= 0
  /\ raw[i].mapColor <= 16777215
  /\ raw[i].coatOfArmsSeed # <<>>
  /\ isCharacterId(raw[i].holderCharacterId)
  /\ validateNullableTitleId(raw[i].deJureParentTitleId)
  /\ validateNullableTitleId(raw[i].deFactoParentTitleId)

validateTitles(raw, modes) ==
  /\ \A i \in 1..Len(raw) : ValidTitle(raw, i, modes)
  /\ \A rank \in Range(Ranks) :
       Cardinality({raw[i].entityId : i \in {j \in 1..Len(raw) : raw[j].rank = rank}})
         = expectedCountByRank(rank, modes)

ValidatedTitle(value) ==
  [id |-> value.id, rank |-> value.rank, entityId |-> value.entityId, name |-> value.name,
   mapColor |-> value.mapColor, coatOfArmsSeed |-> value.coatOfArmsSeed,
   holderCharacterId |-> value.holderCharacterId,
   deJureParentTitleId |-> value.deJureParentTitleId,
   deFactoParentTitleId |-> value.deFactoParentTitleId]

\* variant: primaryTitleId is not looked up in heldTitleIds
ValidCharacterAnyPrimary(raw, i) ==
  /\ isCharacterId(raw[i].id)
  /\ \A j \in 1..(i - 1) : raw[j].id # raw[i].id
  /\ raw[i].name # <<>>
  /\ IsTitleIdString(raw[i].primaryTitleId)
  /\ Len(raw[i].heldTitleIds) > 0
  /\ \A j \in 1..Len(raw[i].heldTitleIds) :
       /\ IsTitleIdString(raw[i].heldTitleIds[j])
       /\ \A k \in 1..(j - 1) : raw[i].heldTitleIds[k] # raw[i].heldTitleIds[j]

\* the assertions of the loop body of validateCharacters on characters[i]
ValidCharacter(raw, i) ==
  /\ isCharacterId(raw[i].id)
  /\ \A j \in 1..(i - 1) : raw[j].id # raw[i].id
  /\ raw[i].name # <<>>
  /\ IsTitleIdString(raw[i].primaryTitleId)
  /\ Len(raw[i].heldTitleIds) > 0
  /\ \A j \in 1..Len(raw[i].heldTitleIds) :
       /\ IsTitleIdString(raw[i].heldTitleIds[j])
       /\ \A k \in 1..(j - 1) : raw[i].heldTitleIds[k] # raw[i].heldTitleIds[j]
  /\ raw[i].primaryTitleId \in Range(raw[i].heldTitleIds)

validateCharacters(raw) == \A i \in 1..Len(raw) : ValidCharacter(raw, i)

ValidatedCharacter(value) ==
  [id |-> value.id, name |-> value.name, primaryTitleId |-> value.primaryTitleId,
   heldTitleIds |-> value.heldTitleIds]

\* titleById.has(id), titleById.get(id).rank
HasTitle(titles, id) == \E i \in 1..Len(titles) : titles[i].id = id

ParentRankIs(titles, parent, rank) ==
  /\ parent # NULL
  /\ HasTitle(titles, parent)
  /\ TitleById(titles, parent).rank = rank

assertTitleParentRelations(titles) ==
  \A i \in 1..Len(titles) :
    IF titles[i].rank = "kingdom"
      THEN titles[i].deJureParentTitleId = NULL /\ titles[i].deFactoParentTitleId = NULL
      ELSE /\ titles[i].deJureParentTitleId # NULL
           /\ titles[i].deFactoParentTitleId # NULL
           /\ HasTitle(titles, titles[i].deJureParentTitleId)
           /\ HasTitle(titles, titles[i].deFactoParentTitleId)
           /\ ParentRankIs(titles, titles[i].deJureParentTitleId,
                           IF titles[i].rank = "county" THEN "duchy" ELSE "kingdom")
           /\ ParentRankIs(titles, titles[i].deFactoParentTitleId,
                           IF titles[i].rank = "county" THEN "duchy" ELSE "kingdom")

\* `${rank}:${mapping[index]}`; an index past the end reads undefined, which
\* prints no digits
TemplateTitleId(rank, mapping, index) ==
  IF index < Len(mapping) THEN buildTitleId(rank, At(mapping, index))
  ELSE [rank |-> rank, digits |-> <<-1>>]

ParentsMatch(titles, rank, entityId, deJureParent, deFactoParent) ==
  /\ HasTitle(titles, buildTitleId(rank, entityId))
  /\ TitleById(titles, buildTitleId(rank, entityId)).deJureParentTitleId = deJureParent
  /\ TitleById(titles, buildTitleId(rank, entityId)).deFactoParentTitleId = deFactoParent

assertTitleHierarchyMatchesModes(titles, modes) ==
  /\ \A countyId \in 0..(Len(modes.deJure.countyNames) - 1) :
       ParentsMatch(titles, "county", countyId,
                    TemplateTitleId("duchy", modes.deJure.countyToDuchy, countyId),
                    TemplateTitleId("duchy", modes.deFacto.countyToDuchy, countyId))
  /\ \A duchyId \in 0..(Len(modes.deJure.duchyNames) - 1) :
       ParentsMatch(titles, "duchy", duchyId,
                    TemplateTitleId("kingdom", modes.deJure.duchyToKingdom, duchyId),
                    TemplateTitleId("kingdom", modes.deFacto.duchyToKingdom, duchyId))
  /\ \A kingdomId \in 0..(Len(modes.deJure.kingdomNames) - 1) :
       ParentsMatch(titles, "kingdom", kingdomId, NULL, NULL)
  /\ Len(titles) = Cardinality({titles[i].id : i \in 1..Len(titles)})

\* the places <<character, position>> at which heldTitleIds lists id
Listings(characters, id) ==
  {pos \in UNION {{<<c, j>> : j \in 1..Len(characters[c].heldTitleIds)} :
                   c \in 1..Len(characters)} :
     characters[pos[1]].heldTitleIds[pos[2]] = id}

\* every title's holder exists
HoldersExist(titles, characters) ==
  \A i \in 1..Len(titles) :
    \E c \in 1..Len(characters) : characters[c].id = titles[i].holderCharacterId

\* every held id names a title, is listed once, and by the title's holder
HeldTitlesAgree(titles, characters) ==
  \A c \in 1..Len(characters) :
    /\ \A j \in 1..Len(characters[c].heldTitleIds) :
         /\ HasTitle(titles, characters[c].heldTitleIds[j])
         /\ Listings(characters, characters[c].heldTitleIds[j]) = {<<c, j>>}
         /\ TitleById(titles, characters[c].heldTitleIds[j]).holderCharacterId = characters[c].id
    /\ characters[c].primaryTitleId \in Range(characters[c].heldTitleIds)

\* every title is in heldByCharacterMap, under its holder
TitlesAreHeld(titles, characters) ==
  \A i \in 1..Len(titles) :
    \E pos \in Listings(characters, titles[i].id) :
      characters[pos[1]].id = titles[i].holderCharacterId

\* variant: the last loop, over the titles, is left out
ConsistencyWithoutLastLoop(titles, characters) ==
  /\ HoldersExist(titles, characters)
  /\ HeldTitlesAgree(titles, characters)

assertTitleCharacterConsistency(titles, characters) ==
  /\ HoldersExist(titles, characters)
  /\ HeldTitlesAgree(titles, characters)
  /\ TitlesAreHeld(titles, characters)

\* the assertions of validateWorldMapData in their order; the first that
\* fails names the failure
ValidationFailure(raw) ==
  IF raw.version # MAP_VERSION THEN "version"
  ELSE IF raw.grid.width # MAP_WIDTH \/ raw.grid.height # MAP_HEIGHT
          \/ raw.grid.tileSizePx # TILE_SIZE_PX \/ raw.grid.chunkSize # CHUNK_SIZE
          \/ ~NumberIsInteger(raw.grid.seed) THEN "grid"
  ELSE IF ~validateHierarchy(raw.modes.deJure, MAP_WIDTH * MAP_HEIGHT) THEN "deJure hierarchy"
  ELSE IF ~validateHierarchy(raw.modes.deFacto, MAP_WIDTH * MAP_HEIGHT) THEN "deFacto hierarchy"
  ELSE IF ~assertNumberArrayEqual(raw.modes.deJure.tileToCounty, raw.modes.deFacto.tileToCounty)
    THEN "deJure/deFacto tileToCounty"
  ELSE IF ~assertStringArrayEqual(raw.modes.deJure.countyNames, raw.modes.deFacto.countyNames)
    THEN "deJure/deFacto countyNames"
  ELSE IF ~assertNumberArrayHasDifference(raw.modes.deJure.countyToDuchy,
                                          raw.modes.deFacto.countyToDuchy)
    THEN "deJure/deFacto countyToDuchy must not be identical"
  ELSE IF ~validateTitles(raw.titles, raw.modes) THEN "titles"
  ELSE IF ~validateCharacters(raw.characters) THEN "characters"
  ELSE IF Len(raw.characters) # Len(raw.modes.deJure.countyNames)
    THEN "character count must equal county count"
  ELSE IF ~assertTitleParentRelations(raw.titles) THEN "title parent relations"
  ELSE IF ~assertTitleHierarchyMatchesModes(raw.titles, raw.modes) THEN "title hierarchy"
  ELSE IF ~assertTitleCharacterConsistency(raw.titles, raw.characters)
    THEN "title/character consistency"
  ELSE "none"

\* the WorldMapDataV2 validateWorldMapData builds and returns
ValidatedWorld(raw) ==
  [version |-> MAP_VERSION,
   grid |-> Grid(raw.grid.seed),
   modes |-> [deJure |-> ValidatedHierarchy(raw.modes.deJure),
              deFacto |-> ValidatedHierarchy(raw.modes.deFacto)],
   titles |-> [i \in 1..Len(raw.titles) |-> ValidatedTitle(raw.titles[i])],
   characters |-> [i \in 1..Len(raw.characters) |-> ValidatedCharacter(raw.characters[i])]]

validateWorldMapData(raw) ==
  IF ValidationFailure(raw) # "none"
    THEN [ok |-> FALSE, failure |-> ValidationFailure(raw)]
    ELSE [ok |-> TRUE, failure |-> "none", value |-> ValidatedWorld(raw)]

(***************************************************************************)
(* Payloads handed to validateWorldMapData: a generated world, or a        *)
(* structured clone of it with one edit: a title's holder rewritten and    *)
(* the title taken off or put on characters' heldTitleIds, a parent id, a  *)
(* title id, rank or entityId rewritten, a title pushed, a mapping or a    *)
(* county name of a mode rewritten, a character's titles rewritten.        *)
(***************************************************************************)
WithHolder(titles, title, holder) ==
  IF holder = 0 THEN titles
  ELSE [titles EXCEPT ![title].holderCharacterId = buildCharacterId(holder - 1)]

Unlisted(characters, id) ==
  [c \in 1..Len(characters) |->
     [characters[c] EXCEPT !.heldTitleIds = SelectSeq(@, LAMBDA held : held # id)]]

Listed(characters, character, id) ==
  IF character = 0 THEN characters
  ELSE [characters EXCEPT ![character].heldTitleIds = Append(@, id)]

\* the characters an edit may name: the first MaxEdited of them
MaxEdited == 1

Edited(w) == 1..(IF Len(w.characters) < MaxEdited THEN Len(w.characters) ELSE MaxEdited)

\* holder 0: the holder is kept; holder Len(characters) + 1: no such character;
\* list 0: the title is put on no list
Edits(w) ==
  [title : 1..Len(w.titles), holder : {0, Len(w.characters) + 1} \cup Edited(w),
   unlist : BOOLEAN, list : {0} \cup Edited(w)]

Tampered(w, edit) ==
  [w EXCEPT !.titles = WithHolder(@, edit.title, edit.holder),
            !.characters = Listed(IF edit.unlist THEN Unlisted(@, w.titles[edit.title].id) ELSE @,
                                  edit.list, w.titles[edit.title].id)]

HolderPayloads(w) == {Tampered(w, edit) : edit \in Edits(w)}

\* a title id with a zero written before its digits: 'county:1' as 'county:01'
Padded(id) == [id EXCEPT !.digits = <<0>> \o @]

\* the values a parent field is set to: null or the id of a title
ParentChoices(w) == {NULL} \cup {w.titles[i].id : i \in 1..Len(w.titles)}

\* payload.titles[t].deJureParentTitleId = parent, and the same of deFacto
ParentPayloads(w) ==
  {[w EXCEPT !.titles[t].deJureParentTitleId = parent] :
     t \in 1..Len(w.titles), parent \in ParentChoices(w)}
    \cup {[w EXCEPT !.titles[t].deFactoParentTitleId = parent] :
            t \in 1..Len(w.titles), parent \in ParentChoices(w)}

\* payload.titles[t].id = payload.titles[from].id, an id padded, a copy of a
\* title pushed, and the rank or entityId field of a title rewritten
TitlePayloads(w) ==
  {[w EXCEPT !.titles[t].id = w.titles[from].id] : t \in 1..Len(w.titles), from \in 1..Len(w.titles)}
    \cup {[w EXCEPT !.titles[t].id = Padded(@)] : t \in 1..Len(w.titles)}
    \cup {[w EXCEPT !.titles = Append(@, w.titles[t])] : t \in 1..Len(w.titles)}
    \cup {[w EXCEPT !.titles[t].rank = rank] : t \in 1..Len(w.titles), rank \in Range(Ranks)}
    \cup {[w EXCEPT !.titles[t].entityId = entityId] :
            t \in 1..Len(w.titles), entityId \in (-1)..Len(w.modes.deJure.countyNames)}

\* the characters whose id is the holder of titles[t]
HolderIndex(w, t) == {c \in 1..Len(w.characters) : w.characters[c].id = w.titles[t].holderCharacterId}

\* a copy of titles[t] pushed under the padded id with a parent of choice, and
\* the padded id put on its holder's heldTitleIds or on none
ExtraTitle(w, t, parent) ==
  [w.titles[t] EXCEPT !.id = Padded(@),
                      !.deJureParentTitleId = IF parent = NULL THEN @ ELSE parent]

ExtraTitlePushed(w, t) ==
  {[w EXCEPT !.titles = Append(@, ExtraTitle(w, t, parent)),
             !.characters = Listed(@, c, Padded(w.titles[t].id))] :
     parent \in ParentChoices(w), c \in {0} \cup HolderIndex(w, t)}

\* the titles copied: those of the first MaxEdited entities of each rank
ExtraTitlePayloads(w) ==
  UNION {ExtraTitlePushed(w, t) : t \in {i \in 1..Len(w.titles) : w.titles[i].entityId < MaxEdited}}

MapModes == {"deJure", "deFacto"}

MappingFields == {"tileToCounty", "countyToDuchy", "duchyToKingdom"}

\* the number of entities a mapping points into
TargetCount(hierarchy, field) ==
  IF field = "tileToCounty" THEN Len(hierarchy.countyNames)
  ELSE IF field = "countyToDuchy" THEN Len(hierarchy.duchyNames)
  ELSE Len(hierarchy.kingdomNames)

\* payload.modes[mode][field][index] = value
WithEntry(w, mode, field, index, value) == [w EXCEPT !.modes[mode][field][index] = value]

\* one entry of a mapping rewritten in one mode, or in both alike
MappingPayloads(w, field) ==
  {WithEntry(w, mode, field, index, value) :
     mode \in MapModes, index \in 1..Len(w.modes.deJure[field]),
     value \in (-1)..TargetCount(w.modes.deJure, field)}
    \cup {WithEntry(WithEntry(w, "deJure", field, index, value), "deFacto", field, index, value) :
            index \in 1..Len(w.modes.deJure[field]),
            value \in (-1)..TargetCount(w.modes.deJure, field)}

\* payload.modes.deFacto = structuredClone(payload.modes.deJure), every title's
\* deFacto parent following
WithOneHierarchy(w) ==
  [w EXCEPT !.modes.deFacto = w.modes.deJure,
            !.titles = [i \in 1..Len(w.titles) |->
                          [w.titles[i] EXCEPT !.deFactoParentTitleId = w.titles[i].deJureParentTitleId]]]

HierarchyPayloads(w) ==
  UNION {MappingPayloads(w, field) : field \in MappingFields}
    \cup {[w EXCEPT !.modes[mode].countyNames[index] = <<"County", 0>>] :
            mode \in MapModes, index \in 1..Len(w.modes.deJure.countyNames)}
    \cup {WithOneHierarchy(w)}

\* a character's heldTitleIds emptied or given one more id, or its
\* primaryTitleId set to the id of the first or the last title
CharacterPayloads(w) ==
  {[w EXCEPT !.characters[c].heldTitleIds = <<>>] : c \in 1..Len(w.characters)}
    \cup {[w EXCEPT !.characters[c].heldTitleIds = Append(@, w.titles[t].id)] :
            c \in 1..Len(w.characters), t \in 1..Len(w.titles)}
    \cup {[w EXCEPT !.characters[c].primaryTitleId = w.titles[t].id] :
            c \in 1..Len(w.characters), t \in {1, Len(w.titles)}}

\* the titles of rank with their deFacto parent read again from mapping
WithDeFactoParents(titles, rank, above, mapping) ==
  [i \in 1..Len(titles) |->
     IF titles[i].rank = rank
       THEN [titles[i] EXCEPT !.deFactoParentTitleId =
               buildTitleId(above, At(mapping, titles[i].entityId))]
       ELSE titles[i]]

\* the mapping with the entities of the last target sent to target 0
Merged(mapping, targetCount) ==
  [i \in 1..Len(mapping) |-> IF mapping[i] = targetCount - 1 THEN 0 ELSE mapping[i]]

\* deFacto loses its last kingdom: its duchies go to kingdom 0, the duchy
\* titles following
WithFewerKingdoms(w) ==
  [w EXCEPT !.modes.deFacto.kingdomNames = SubSeq(@, 1, Len(@) - 1),
            !.modes.deFacto.duchyToKingdom = Merged(@, Len(w.modes.deFacto.kingdomNames)),
            !.titles = WithDeFactoParents(@, "duchy", "kingdom",
                         Merged(w.modes.deFacto.duchyToKingdom,
                                Len(w.modes.deFacto.kingdomNames)))]

\* deFacto gets one kingdom more, to which duchy goes
WithMoreKingdoms(w, duchy) ==
  [w EXCEPT !.modes.deFacto.kingdomNames = Append(@, <<"Kingdom", Len(@) + 1>>),
            !.modes.deFacto.duchyToKingdom[duchy] = Len(w.modes.deFacto.kingdomNames),
            !.titles = WithDeFactoParents(@, "duchy", "kingdom",
                         [w.modes.deFacto.duchyToKingdom EXCEPT
                            ![duchy] = Len(w.modes.deFacto.kingdomNames)])]

\* deFacto loses its last duchy: its counties go to duchy 0
WithFewerDuchies(w) ==
  [w EXCEPT !.modes.deFacto.duchyNames = SubSeq(@, 1, Len(@) - 1),
            !.modes.deFacto.duchyToKingdom = SubSeq(@, 1, Len(@) - 1),
            !.modes.deFacto.countyToDuchy = Merged(@, Len(w.modes.deFacto.duchyNames)),
            !.titles = WithDeFactoParents(@, "county", "duchy",
                         Merged(w.modes.deFacto.countyToDuchy,
                                Len(w.modes.deFacto.duchyNames)))]

\* deFacto gets one duchy more, of kingdom 0, to which county goes
WithMoreDuchies(w, county) ==
  [w EXCEPT !.modes.deFacto.duchyNames = Append(@, <<"Duchy", Len(@) + 1>>),
            !.modes.deFacto.duchyToKingdom = Append(@, 0),
            !.modes.deFacto.countyToDuchy[county] = Len(w.modes.deFacto.duchyNames),
            !.titles = WithDeFactoParents(@, "county", "duchy",
                         [w.modes.deFacto.countyToDuchy EXCEPT
                            ![county] = Len(w.modes.deFacto.duchyNames)])]

\* deFacto with a duchy or a kingdom fewer or more than deJure
CountPayloads(w) ==
  {WithFewerKingdoms(w), WithFewerDuchies(w)}
    \cup {WithMoreKingdoms(w, duchy) : duchy \in 1..Len(w.modes.deFacto.duchyToKingdom)}
    \cup {WithMoreDuchies(w, county) : county \in 1..Len(w.modes.deFacto.countyToDuchy)}

Payloads(w) ==
  HolderPayloads(w) \cup ParentPayloads(w) \cup TitlePayloads(w) \cup ExtraTitlePayloads(w)
    \cup HierarchyPayloads(w) \cup CharacterPayloads(w) \cup CountPayloads(w)

Validate ==
  /\ pc = "returned"
  /\ pc' = "validated"
  /\ \E raw \in Payloads(world[1]) :
       /\ payload' = <<raw>>
       /\ validation' = <<validateWorldMapData(raw)>>
  /\ UNCHANGED <<options, calls, level, rg, pt, gen, world, error, started, previous,
                 query, resolved, store>>

(***************************************************************************)
(* Selectors.  A tile id is a JavaScript number; a returned null is <<>>,  *)
(* a returned id n is <<n>>.                                               *)
(***************************************************************************)
getTileCount(grid) == grid.width * grid.height

isValidTileId(tileId, grid) ==
  NumberIsInteger(tileId) /\ tileId.whole >= 0 /\ tileId.whole < getTileCount(grid)

\* array[index]: <<>> is undefined
ArrayRead(array, index) ==
  IF NumberIsInteger(index) /\ index.whole >= 0 /\ index.whole < Len(array)
    THEN <<At(array, index.whole)>>
    ELSE <<>>

DuchyOrKingdom(hierarchy, duchyId, mapLevel) ==
  IF duchyId = <<>> THEN <<>>
  ELSE IF mapLevel = "duchy" THEN duchyId
  ELSE ArrayRead(hierarchy.duchyToKingdom, Num(duchyId[1]))

\* variant: the county id is returned at every level
CountyAtEveryLevel(hierarchy, countyId, mapLevel) == countyId

CountyOrAbove(hierarchy, countyId, mapLevel) ==
  IF countyId = <<>> THEN <<>>
  ELSE IF mapLevel = "county" THEN countyId
  ELSE DuchyOrKingdom(hierarchy, ArrayRead(hierarchy.countyToDuchy, Num(countyId[1])), mapLevel)

getEntityIdForTile(hierarchy, tileId, mapLevel) ==
  CountyOrAbove(hierarchy, ArrayRead(hierarchy.tileToCounty, tileId), mapLevel)

resolveEntityId(data, mode, mapLevel, tileId) ==
  IF ~isValidTileId(tileId, data.grid) THEN <<>>
  ELSE getEntityIdForTile(data.modes[mode], tileId, mapLevel)

TileIdInputs ==
  {Num(t) : t \in (-1)..(TileCount + 1)}
    \cup {[whole |-> 0, half |-> TRUE], [whole |-> TileCount - 1, half |-> TRUE]}

\* the data at hand: the validator's return value when it has run, else the
\* generator's
LoadedData == IF validation # <<>> THEN validation[1].value ELSE world[1]

Resolve ==
  /\ pc = "returned" \/ (pc = "validated" /\ validation[1].ok)
  /\ pc' = "resolved"
  /\ \E mode \in MapModes, mapLevel \in Range(Ranks), tileId \in TileIdInputs :
       /\ query' = <<[mode |-> mode, level |-> mapLevel, tileId |-> tileId]>>
       /\ resolved' = <<resolveEntityId(LoadedData, mode, mapLevel, tileId)>>
  /\ UNCHANGED <<options, calls, level, rg, pt, gen, world, error, started, previous,
                 payload, validation, store>>

(***************************************************************************)
(* The map store.  view.selectedEntityId holds what resolveEntityId        *)
(* returned (<<>> for null); tile ids are JavaScript numbers or null.  The *)
(* viewport fields of the view, which panBy and zoomAt alone write, are    *)
(* left out.                                                               *)
(***************************************************************************)
\* this.selectedTileId ?? this.view.hoveredTileId
BaseTileId(s) == IF s.selectedTileId # NULL THEN s.selectedTileId ELSE s.view.hoveredTileId

Remapped(s) == resolveEntityId(s.data[1], s.view.mode, s.view.level, BaseTileId(s))

remapSelection(s) ==
  IF s.data = <<>> THEN s
  ELSE IF BaseTileId(s) = NULL THEN [s EXCEPT !.view.selectedEntityId = <<>>]
  ELSE [s EXCEPT !.view.selectedEntityId = Remapped(s),
                 !.selectedTileId = IF @ # NULL /\ Remapped(s) = <<>> THEN NULL ELSE @]

\* variant: the selection is not remapped
SetModeOnly(s, mode) == IF s.view.mode = mode THEN s ELSE [s EXCEPT !.view.mode = mode]

setMode(s, mode) ==
  IF s.view.mode = mode THEN s ELSE remapSelection([s EXCEPT !.view.mode = mode])

setLevel(s, mapLevel) ==
  IF s.view.level = mapLevel THEN s ELSE remapSelection([s EXCEPT !.view.level = mapLevel])

\* tileId >= 0 && tileId < maxTile, of a number kept as its floor and a half
InTileRange(tileId, maxTile) == tileId.whole >= 0 /\ tileId.whole < maxTile

setHoveredTile(s, tileId) ==
  IF s.data = <<>> \/ tileId = NULL THEN [s EXCEPT !.view.hoveredTileId = NULL]
  ELSE [s EXCEPT !.view.hoveredTileId =
          IF InTileRange(tileId, s.data[1].grid.width * s.data[1].grid.height) THEN tileId
          ELSE NULL]

Selected(s, tileId, entityId) ==
  [s EXCEPT !.selectedTileId = IF entityId = <<>> THEN NULL ELSE tileId,
            !.view.selectedEntityId = entityId]

selectTile(s, tileId) ==
  IF s.data = <<>> \/ tileId = NULL
    THEN [s EXCEPT !.selectedTileId = NULL, !.view.selectedEntityId = <<>>]
    ELSE Selected(s, tileId, resolveEntityId(s.data[1], s.view.mode, s.view.level, tileId))

\* the contents of world.v2.json: a generated world, or one the validator
\* turns down
StoredPayloads(w) == {w, WithOneHierarchy(w)}

Loaded(s, outcome) ==
  IF outcome.ok THEN [s EXCEPT !.data = <<outcome.value>>]
  ELSE [s EXCEPT !.loadError = outcome.failure]

LoadMapData ==
  /\ pc = "returned"
  /\ store.data = <<>>
  /\ pc' = "loaded"
  /\ \E raw \in StoredPayloads(world[1]) : store' = Loaded(store, validateWorldMapData(raw))
  /\ UNCHANGED <<options, calls, level, rg, pt, gen, world, error, started, previous,
                 payload, validation, query, resolved>>

TileArguments == {NULL} \cup TileIdInputs

SetMode ==
  /\ pc = "loaded"
  /\ \E mode \in MapModes : store' = setMode(store, mode)
  /\ UNCHANGED <<pc, options, calls, level, rg, pt, gen, world, error, started, previous,
                 payload, validation, query, resolved>>

SetLevel ==
  /\ pc = "loaded"
  /\ \E mapLevel \in Range(Ranks) : store' = setLevel(store, mapLevel)
  /\ UNCHANGED <<pc, options, calls, level, rg, pt, gen, world, error, started, previous,
                 payload, validation, query, resolved>>

SetHoveredTile ==
  /\ pc = "loaded"
  /\ \E tileId \in TileArguments : store' = setHoveredTile(store, tileId)
  /\ UNCHANGED <<pc, options, calls, level, rg, pt, gen, world, error, started, previous,
                 payload, validation, query, resolved>>

SelectTile ==
  /\ pc = "loaded"
  /\ \E tileId \in TileArguments : store' = selectTile(store, tileId)
  /\ UNCHANGED <<pc, options, calls, level, rg, pt, gen, world, error, started, previous,
                 payload, validation, query, resolved>>

Next ==
  \/ GenerateWorldMapData
  \/ GenerateAgain
  \/ BuildDesiredSizesRepair
  \/ RegionGrowSeeds
  \/ RegionGrowLoop
  \/ RegionGrowReturn
  \/ PerturbAttempt
  \/ PerturbReturn
  \/ GenerateTitles
  \/ Validate
  \/ Resolve
  \/ LoadMapData
  \/ SetMode
  \/ SetLevel
  \/ SetHoveredTile
  \/ SelectTile

Spec == Init /\ [][Next]_vars

(***************************************************************************)
(* regionGrow called by itself, on the adjacency of a grid and on that     *)
(* adjacency with node 0 cut off, with up to one seed more than nodes.     *)
(***************************************************************************)
\* the adjacency lists without the edges of node
Isolated(adjacency, node) ==
  [n \in 1..Len(adjacency) |->
     IF n - 1 = node THEN <<>> ELSE SelectSeq(adjacency[n], LAMBDA next : next # node)]

GridInputs ==
  {buildTileAdjacency(width, height) : width \in 1..MAP_WIDTH, height \in 1..MAP_HEIGHT}

AdjacencyInputs == GridInputs \cup {Isolated(adjacency, 0) : adjacency \in GridInputs}

RngInputs == {XorShift32(CountyRngSeed(seed)) : seed \in 0..MaxSeed}

InitRegionGrow ==
  /\ pc = "desired"
  /\ level = "regionGrow"
  /\ \E adjacency \in AdjacencyInputs : \E seedCount \in 1..(Len(adjacency) + 1) :
       \E rng \in RngInputs : rg = RegionGrowCall(Len(adjacency), seedCount, rng, adjacency)
  /\ options = [seed |-> Num(0), countyCount |-> 0, duchyCount |-> 0, kingdomCount |-> 0]
  /\ calls = 0
  /\ pt = NoLocals
  /\ gen = NoGen
  /\ world = <<>>
  /\ error = "none"
  /\ started = {"regionGrow"}
  /\ previous = <<>>
  /\ payload = <<>>
  /\ validation = <<>>
  /\ query = <<>>
  /\ resolved = <<>>
  /\ store = InitialStore

\* return owner
RegionGrowOwner ==
  /\ pc = "grow"
  /\ level = "regionGrow"
  /\ rg.unassigned = 0
  /\ pc' = "done"
  /\ UNCHANGED <<options, calls, level, rg, pt, gen, world, error, started, previous,
                 payload, validation, query, resolved, store>>

NextRegionGrow ==
  \/ BuildDesiredSizesRepair
  \/ RegionGrowSeeds
  \/ RegionGrowLoop
  \/ RegionGrowOwner

SpecRegionGrow == InitRegionGrow /\ [][NextRegionGrow]_vars

\* the states in which regionGrow has a next step: the repair loop within the
\* iterations followed, the call of chooseUniqueSeeds, the growth loop and the
\* return
Running ==
  \/ pc = "desired" /\ (rg.diff = 0 \/ rg.repairs < MaxRepairs)
  \/ pc = "grow"

\* regionGrow runs to its end without suspension: a step that can be taken is
\* taken.  This is WF_vars(NextRegionGrow) written out, with Running for
\* ENABLED <<NextRegionGrow>>_vars.
FairRegionGrow == SpecRegionGrow /\ ([]<>(~Running) \/ []<><<NextRegionGrow>>_vars)

(***************************************************************************)
(* One call of generateWorldMapData, from its entry to its return or its   *)
(* error.                                                                  *)
(***************************************************************************)
NextGenerate ==
  \/ GenerateWorldMapData
  \/ BuildDesiredSizesRepair
  \/ RegionGrowSeeds
  \/ RegionGrowLoop
  \/ RegionGrowReturn
  \/ PerturbAttempt
  \/ PerturbReturn
  \/ GenerateTitles

SpecGenerate == Init /\ [][NextGenerate]_vars

\* the states in which the call has a next step
Generating ==
  \/ pc \in {"idle", "grow", "perturb", "titles"}
  \/ pc = "desired" /\ (rg.diff = 0 \/ rg.repairs < MaxRepairs)

\* the call runs to completion without yielding: WF_vars(NextGenerate) written
\* out, with Generating for ENABLED <<NextGenerate>>_vars
FairGenerate == SpecGenerate /\ ([]<>(~Generating) \/ []<><<NextGenerate>>_vars)

(***************************************************************************)
(* perturbAssignments called by itself, on the adjacency of every grid of  *)
(* up to MaxPerturbNodes tiles, with every base assignment into up to      *)
(* MaxBuckets buckets (empty buckets included) and targets up to           *)
(* MaxTarget, the generator being that of generateDeFactoUpperHierarchy    *)
(* for seed 0.                                                             *)
(***************************************************************************)
MaxPerturbNodes == 5
MaxBuckets == 3
MaxTarget == 2

GridsOfWidth(width) ==
  {buildTileAdjacency(width, height) : height \in 1..(MaxPerturbNodes \div width)}

PerturbGrids == UNION {GridsOfWidth(width) : width \in 1..MaxPerturbNodes}

BaseInputs(nodes, bucketCount) ==
  {[n \in 1..nodes |-> base[n]] : base \in [1..nodes -> 0..(bucketCount - 1)]}

InitPerturb ==
  /\ pc = "perturb"
  /\ level = "perturbAssignments"
  /\ \E adjacency \in PerturbGrids : \E bucketCount \in 1..MaxBuckets :
       \E base \in BaseInputs(Len(adjacency), bucketCount) :
         \E targetDifferences \in 0..MaxTarget :
           pt = [adjacency |-> adjacency]
                @@ PerturbStart(base, bucketCount, targetDifferences,
                                XorShift32(DeFactoRngSeed(0)))
  /\ options = [seed |-> Num(0), countyCount |-> 0, duchyCount |-> 0, kingdomCount |-> 0]
  /\ calls = 0
  /\ rg = NoLocals
  /\ gen = NoGen
  /\ world = <<>>
  /\ error = "none"
  /\ started = {"perturbAssignments"}
  /\ previous = <<>>
  /\ payload = <<>>
  /\ validation = <<>>
  /\ query = <<>>
  /\ resolved = <<>>
  /\ store = InitialStore

\* the loop is left: throw, or return out
PerturbOut ==
  /\ pc = "perturb"
  /\ level = "perturbAssignments"
  /\ ~PerturbRunning(pt)
  /\ IF Unreached(pt)
       THEN /\ pc' = "failed"
            /\ error' = "perturbation did not reach target differences"
       ELSE /\ pc' = "done"
            /\ error' = error
  /\ UNCHANGED <<options, calls, level, rg, pt, gen, world, started, previous,
                 payload, validation, query, resolved, store>>

NextPerturb ==
  \/ PerturbAttempt
  \/ PerturbOut

SpecPerturb == InitPerturb /\ [][NextPerturb]_vars

(***************************************************************************)
(* projectAdjacency called by itself, on every directed graph of up to     *)
(* MaxSourceNodes nodes and MaxEdges edges (self-loops and one-way edges   *)
(* included) and every mapping of its nodes into up to MaxSourceNodes      *)
(* targets.                                                                *)
(***************************************************************************)
MaxSourceNodes == 3
MaxEdges == 2

EdgeSets(nodes) ==
  {edges \in SUBSET ((0..(nodes - 1)) \X (0..(nodes - 1))) : Cardinality(edges) <= MaxEdges}

\* the adjacency lists of a set of edges
AdjacencyOf(nodes, edges) ==
  [a \in 1..nodes |-> SortedArray({e[2] : e \in {f \in edges : f[1] = a - 1}})]

MappingInputs(nodes, targetCount) ==
  {[a \in 1..nodes |-> mapping[a]] : mapping \in [1..nodes -> 0..(targetCount - 1)]}

ProjectInputs(nodes, targetCount) ==
  {[sourceAdjacency |-> AdjacencyOf(nodes, edges), sourceToTarget |-> mapping,
    targetCount |-> targetCount] :
     edges \in EdgeSets(nodes), mapping \in MappingInputs(nodes, targetCount)}

InitProject ==
  /\ pc = "project"
  /\ level = "projectAdjacency"
  /\ \E nodes \in 1..MaxSourceNodes : \E targetCount \in 1..MaxSourceNodes :
       \E arguments \in ProjectInputs(nodes, targetCount) : query = <<arguments>>
  /\ resolved = <<>>
  /\ options = [seed |-> Num(0), countyCount |-> 0, duchyCount |-> 0, kingdomCount |-> 0]
  /\ calls = 0
  /\ rg = NoLocals
  /\ pt = NoLocals
  /\ gen = NoGen
  /\ world = <<>>
  /\ error = "none"
  /\ started = {}
  /\ previous = <<>>
  /\ payload = <<>>
  /\ validation = <<>>
  /\ store = InitialStore

\* the call returns its lists
ProjectAdjacency ==
  /\ pc = "project"
  /\ pc' = "done"
  /\ resolved' = <<projectAdjacency(query[1].sourceAdjacency, query[1].sourceToTarget,
                                    query[1].targetCount)>>
  /\ UNCHANGED <<options, calls, level, rg, pt, gen, world, error, started, previous,
                 payload, validation, query, store>>

NextProject == ProjectAdjacency

SpecProject == InitProject /\ [][NextProject]_vars

(***************************************************************************)
(* Properties.                                                             *)
(***************************************************************************)
Returned == world # <<>>

\* the characters whose heldTitleIds list id
ListedBy(w, id) == {c \in 1..Len(w.characters) : id \in Range(w.characters[c].heldTitleIds)}

\* the number of positions at which two arrays of one length differ
Differences(left, right) == Cardinality({i \in 1..Len(left) : left[i] # right[i]})

\* every entity index in [0, count) is the image of some element
Covers(mapping, count) == \A id \in 0..(count - 1) : \E i \in 1..Len(mapping) : mapping[i] = id

\* C1: whenever generateWorldMapData has returned and its output is handed to
\* validateWorldMapData, the validation succeeds and returns a value equal to
\* that output.
C1_GeneratedOutputValidates ==
  (pc = "validated" /\ payload = world) =>
    validation[1].ok /\ validation[1].value = world[1]

C1_Witness ==
  /\ pc = "validated"
  /\ payload = world
  /\ world[1].modes.deJure.duchyToKingdom # world[1].modes.deFacto.duchyToKingdom

C3_HolderConsistency ==
  Returned =>
    /\ \A t \in 1..Len(world[1].titles) :
         /\ Cardinality(ListedBy(world[1], world[1].titles[t].id)) = 1
         /\ \A c \in ListedBy(world[1], world[1].titles[t].id) :
              world[1].characters[c].id = world[1].titles[t].holderCharacterId
    /\ \A c \in 1..Len(world[1].characters) :
         \A id \in Range(world[1].characters[c].heldTitleIds) :
           \E t \in 1..Len(world[1].titles) :
             /\ world[1].titles[t].id = id
             /\ world[1].titles[t].holderCharacterId = world[1].characters[c].id

C3_Witness ==
  /\ Returned
  /\ \E c \in 1..Len(world[1].characters) : Len(world[1].characters[c].heldTitleIds) = 3

\* C4: in every output, in both modes, tileToCounty covers every county,
\* countyToDuchy every duchy and duchyToKingdom every kingdom.
C4_NonEmptyRegions ==
  Returned =>
    \A mode \in MapModes :
      /\ Covers(world[1].modes[mode].tileToCounty, Len(world[1].modes[mode].countyNames))
      /\ Covers(world[1].modes[mode].countyToDuchy, Len(world[1].modes[mode].duchyNames))
      /\ Covers(world[1].modes[mode].duchyToKingdom, Len(world[1].modes[mode].kingdomNames))

C4_Witness ==
  /\ Returned
  /\ Len(world[1].modes.deFacto.kingdomNames) = MaxKingdom
  /\ world[1].modes.deFacto.countyToDuchy # world[1].modes.deJure.countyToDuchy
  /\ world[1].modes.deFacto.duchyToKingdom # world[1].modes.deJure.duchyToKingdom

EntityCount(hierarchy, mapLevel) ==
  IF mapLevel = "county" THEN Len(hierarchy.countyNames)
  ELSE IF mapLevel = "duchy" THEN Len(hierarchy.duchyNames)
  ELSE Len(hierarchy.kingdomNames)

\* C7: on generated or validated data resolveEntityId returns an id in
\* [0, entity count of the level) for every integer tile id in
\* [0, width * height), and null for every other tile id.
C7_ResolveCoverage ==
  pc = "resolved" =>
    IF ~query[1].tileId.half /\ query[1].tileId.whole \in 0..(MAP_WIDTH * MAP_HEIGHT - 1)
      THEN /\ resolved[1] # <<>>
           /\ resolved[1][1] \in
                0..(EntityCount(LoadedData.modes[query[1].mode], query[1].level) - 1)
      ELSE resolved[1] = <<>>

C7_Witness ==
  /\ pc = "resolved"
  /\ validation # <<>>
  /\ payload # world
  /\ query[1].level = "kingdom"
  /\ resolved[1] # <<>>

\* C8: every generated character's primaryTitleId is one of its heldTitleIds,
\* no held title has a higher rank weight, and no held title of the same rank
\* has a lower entityId.
C8_PrimaryTitle ==
  Returned =>
    \A c \in 1..Len(world[1].characters) :
      /\ world[1].characters[c].primaryTitleId \in Range(world[1].characters[c].heldTitleIds)
      /\ \A held \in Range(world[1].characters[c].heldTitleIds) :
           \/ rankWeight(held.rank) < rankWeight(world[1].characters[c].primaryTitleId.rank)
           \/ /\ held.rank = world[1].characters[c].primaryTitleId.rank
              /\ DigitsValue(world[1].characters[c].primaryTitleId.digits)
                   <= DigitsValue(held.digits)

C8_Witness ==
  /\ Returned
  /\ \E c \in 1..Len(world[1].characters) :
       /\ Len(world[1].characters[c].heldTitleIds) = 2
       /\ world[1].characters[c].primaryTitleId.rank = "duchy"

\* options outside the stated preconditions
InvalidOptions(o) ==
  \/ o.seed.half
  \/ o.countyCount <= 0 \/ o.duchyCount <= 0 \/ o.kingdomCount <= 0
  \/ o.duchyCount > o.countyCount
  \/ o.kingdomCount > o.duchyCount

\* C9: a call whose seed is not an integer, or with a count <= 0, or with
\* duchyCount > countyCount, or with kingdomCount > duchyCount, has failed
\* with an error and has started no region growth, perturbation or title
\* assignment.
C9_FailsFast ==
  (calls >= 1 /\ InvalidOptions(options)) =>
    /\ pc = "failed"
    /\ error # "none"
    /\ started = {}
    /\ rg = NoLocals /\ pt = NoLocals /\ gen = NoGen
    /\ world = <<>>

C9_Witness ==
  /\ pc = "failed"
  /\ ~options.seed.half
  /\ options.countyCount > 0
  /\ options.duchyCount > 0
  /\ options.duchyCount <= options.countyCount
  /\ options.kingdomCount > options.duchyCount

\* some title has no existing holder, or is not listed by exactly one
\* character, or is listed by a character other than its holder
HolderInconsistent(w) ==
  \E t \in 1..Len(w.titles) :
    \/ \A c \in 1..Len(w.characters) : w.characters[c].id # w.titles[t].holderCharacterId
    \/ Cardinality(ListedBy(w, w.titles[t].id)) # 1
    \/ \E c \in ListedBy(w, w.titles[t].id) :
         w.characters[c].id # w.titles[t].holderCharacterId

\* C10: validateWorldMapData fails for every payload in which a title's
\* holderCharacterId is no character's id, or a title is listed by no
\* character or by more than one, or the character listing a title is not
\* its holder.
C10_RejectsInconsistentHolders ==
  (pc = "validated" /\ HolderInconsistent(payload[1])) => ~validation[1].ok

C10_Witness ==
  /\ pc = "validated"
  /\ HolderInconsistent(payload[1])
  /\ validation[1].failure = "title/character consistency"
  /\ \A t \in 1..Len(payload[1].titles) : Cardinality(ListedBy(payload[1], payload[1].titles[t].id)) <= 1
  /\ \A t \in 1..Len(payload[1].titles) :
       \E c \in 1..Len(payload[1].characters) :
         payload[1].characters[c].id = payload[1].titles[t].holderCharacterId


\* validateWorldMapData has accepted the payload handed to it
Accepted == validation # <<>> /\ validation[1].ok

\* the parent id the mapping of a mode gives a title: null for a kingdom
MirroredParent(hierarchy, title) ==
  IF title.rank = "county"
    THEN buildTitleId("duchy", At(hierarchy.countyToDuchy, title.entityId))
  ELSE IF title.rank = "duchy"
    THEN buildTitleId("kingdom", At(hierarchy.duchyToKingdom, title.entityId))
  ELSE NULL

\* C11: validateWorldMapData succeeds only if, in each mode, every county
\* title's parent id is the duchy title id given by that mode's countyToDuchy,
\* every duchy title's parent id is the kingdom title id given by that mode's
\* duchyToKingdom, and every kingdom title's parents are null.
C11_ParentsMirrorHierarchy ==
  Accepted =>
    \A i \in 1..Len(payload[1].titles) :
      /\ payload[1].titles[i].deJureParentTitleId
           = MirroredParent(payload[1].modes.deJure, payload[1].titles[i])
      /\ payload[1].titles[i].deFactoParentTitleId
           = MirroredParent(payload[1].modes.deFacto, payload[1].titles[i])

\* the titles of a rank and entity id
TitlesOf(titles, rank, entityId) ==
  {i \in 1..Len(titles) : titles[i].rank = rank /\ titles[i].entityId = entityId}

\* C12: every payload validateWorldMapData accepts has each title's id equal
\* to the canonical encoding rank:entityId of its rank and entityId fields,
\* and exactly one title for each entity of each rank, so that titles.length
\* is countyCount + duchyCount + kingdomCount.
C12_TitlesMatchPairs ==
  Accepted =>
    /\ \A i \in 1..Len(payload[1].titles) :
         payload[1].titles[i].id
           = buildTitleId(payload[1].titles[i].rank, payload[1].titles[i].entityId)
    /\ \A rank \in Range(Ranks) :
         \A entityId \in 0..(expectedCountByRank(rank, payload[1].modes) - 1) :
           Cardinality(TitlesOf(payload[1].titles, rank, entityId)) = 1
    /\ Len(payload[1].titles)
         = Len(payload[1].modes.deJure.countyNames) + Len(payload[1].modes.deJure.duchyNames)
             + Len(payload[1].modes.deJure.kingdomNames)


\* the stages of validateWorldMapData up to validateTitles, and up to
\* validateCharacters
UpToTitles ==
  {"version", "grid", "deJure hierarchy", "deFacto hierarchy", "deJure/deFacto tileToCounty",
   "deJure/deFacto countyNames", "deJure/deFacto countyToDuchy must not be identical", "titles"}

UpToCharacters == UpToTitles \cup {"characters"}

Validated == validation # <<>>

\* the two modes of the payload differ in tileToCounty or in countyNames, or
\* agree at every position of countyToDuchy
ModesDisagree(raw) ==
  \/ raw.modes.deJure.tileToCounty # raw.modes.deFacto.tileToCounty
  \/ raw.modes.deJure.countyNames # raw.modes.deFacto.countyNames
  \/ raw.modes.deJure.countyToDuchy = raw.modes.deFacto.countyToDuchy

\* C13: validateWorldMapData fails for any payload in which deJure and deFacto
\* differ in tileToCounty or in countyNames at any position, and for any
\* payload in which the countyToDuchy of the two modes are identical.
C13_RejectsModeDisagreement ==
  (Validated /\ ModesDisagree(payload[1])) => ~validation[1].ok

\* each of the three cases is rejected by its own comparison: each hierarchy
\* is valid by itself
C13_Witness ==
  /\ Validated
  /\ validation[1].failure = "deJure/deFacto countyToDuchy must not be identical"
  /\ payload[1] = WithOneHierarchy(world[1])

C13_WitnessTiles ==
  /\ Validated
  /\ validation[1].failure = "deJure/deFacto tileToCounty"
  /\ payload[1].modes.deJure.countyNames = payload[1].modes.deFacto.countyNames

C13_WitnessNames == Validated /\ validation[1].failure = "deJure/deFacto countyNames"

\* some character's heldTitleIds is empty or repeats an id, or its
\* primaryTitleId is not among them
CharacterDefect(raw) ==
  \E c \in 1..Len(raw.characters) :
    \/ raw.characters[c].heldTitleIds = <<>>
    \/ Cardinality(Range(raw.characters[c].heldTitleIds)) # Len(raw.characters[c].heldTitleIds)
    \/ raw.characters[c].primaryTitleId \notin Range(raw.characters[c].heldTitleIds)

\* C14: validateWorldMapData fails for any payload in which some character
\* has an empty heldTitleIds list, a heldTitleIds list with a repeated id, or a
\* primaryTitleId that is not an element of its heldTitleIds; validateCharacters
\* or an earlier stage rejects it.
C14_RejectsCharacterDefects ==
  (Validated /\ CharacterDefect(payload[1])) => validation[1].failure \in UpToCharacters

\* the test's payload: characters[0].primaryTitleId = the last title's id,
\* which the first character does not hold
C14_Witness ==
  /\ Validated
  /\ validation[1].failure = "characters"
  /\ payload[1] = [world[1] EXCEPT !.characters[1].primaryTitleId
                                     = world[1].titles[Len(world[1].titles)].id]
  /\ payload[1] # world[1]

\* two entries of titles carry the same id
DuplicateTitleId(raw) ==
  \E i \in 1..Len(raw.titles) : \E j \in 1..Len(raw.titles) :
    i # j /\ raw.titles[i].id = raw.titles[j].id

\* C15: validateWorldMapData fails for any payload in which two entries of
\* titles carry the same id; validateTitles or an earlier stage rejects it.
C15_RejectsDuplicateTitleIds ==
  (Validated /\ DuplicateTitleId(payload[1])) => validation[1].failure \in UpToTitles

\* a title pushed a second time: the copies agree in every field
C15_Witness ==
  /\ Validated
  /\ validation[1].failure = "titles"
  /\ payload[1] = [world[1] EXCEPT !.titles = Append(@, world[1].titles[1])]

\* some entry of a mapping of the hierarchy lies outside [0, count of the next
\* rank), or some entity of a rank is the image of no lower-level element
MappingDefect(hierarchy) ==
  \E field \in MappingFields :
    \/ \E i \in 1..Len(hierarchy[field]) :
         hierarchy[field][i] \notin 0..(TargetCount(hierarchy, field) - 1)
    \/ ~Covers(hierarchy[field], TargetCount(hierarchy, field))

\* C16: validateWorldMapData fails for any payload in which, in either mode,
\* some entry of tileToCounty, countyToDuchy or duchyToKingdom lies outside
\* [0, number of entities of the next rank), or some entity index of some rank
\* is the image of no lower-level element.
C16_RejectsMappingDefects ==
  (Validated /\ \E mode \in MapModes : MappingDefect(payload[1].modes[mode]))
    => ~validation[1].ok

\* a county left without tiles in both modes alike, every entry in range
C16_Witness ==
  /\ Validated
  /\ ~validation[1].ok
  /\ payload[1].modes.deJure.tileToCounty = payload[1].modes.deFacto.tileToCounty
  /\ payload[1].titles = world[1].titles
  /\ \A mode \in MapModes : \A field \in MappingFields :
       assertIndexBounds(payload[1].modes[mode][field], TargetCount(payload[1].modes[mode], field))
  /\ ~Covers(payload[1].modes.deJure.tileToCounty, Len(payload[1].modes.deJure.countyNames))

\* an entry out of range
C16_WitnessBounds ==
  /\ Validated
  /\ \E mode \in MapModes : \E field \in MappingFields :
       ~assertIndexBounds(payload[1].modes[mode][field], TargetCount(payload[1].modes[mode], field))


\* C17: in the map store with data loaded, after any sequence of selectTile,
\* setMode, setLevel and setHoveredTile calls, whenever selectedTileId is
\* non-null, view.selectedEntityId equals resolveEntityId(data, view.mode,
\* view.level, selectedTileId).
C17_SelectionResolved ==
  (store.data # <<>> /\ store.selectedTileId # NULL) =>
    store.view.selectedEntityId
      = resolveEntityId(store.data[1], store.view.mode, store.view.level, store.selectedTileId)

\* a tile is selected, and the entity shown in the de facto mode is not the one
\* the de jure mode gives the tile
C17_Witness ==
  /\ store.data # <<>>
  /\ store.selectedTileId # NULL
  /\ store.view.mode = "deFacto"
  /\ store.view.selectedEntityId # <<>>
  /\ store.view.selectedEntityId
       # resolveEntityId(store.data[1], "deJure", store.view.level, store.selectedTileId)


\* C18: every call of regionGrow ends, returning or failing, and never loops
\* forever, also when seedCount > totalNodes: while buildDesiredSizes repairs
\* a sum that is too large, some bucket is above 1, so that some draw of the
\* loop shrinks it (with every bucket at 1 no draw changes desired or diff,
\* and neither the return nor the seed-count error is ever reached).
C18_RepairLoopCanEnd ==
  (pc = "desired" /\ rg.diff < 0) => \E i \in 1..Len(rg.desired) : rg.desired[i] > 1

\* the nodes reached from a set of nodes
RECURSIVE ReachableFrom(_, _)
ReachableFrom(adjacency, nodes) ==
  IF UNION {Range(At(adjacency, n)) : n \in nodes} \subseteq nodes THEN nodes
  ELSE ReachableFrom(adjacency, nodes \cup UNION {Range(At(adjacency, n)) : n \in nodes})

Connected(adjacency) == ReachableFrom(adjacency, {0}) = 0..(Len(adjacency) - 1)

Symmetric(adjacency) ==
  \A n \in 0..(Len(adjacency) - 1) : \A next \in Range(At(adjacency, n)) :
    n \in Range(At(adjacency, next))

\* regionGrow is in its growth loop, or has left it, on a connected symmetric
\* graph
GrowingConnected ==
  /\ pc \in {"grow", "done", "failed"}
  /\ "frontiers" \in DOMAIN rg
  /\ Connected(rg.adjacency)
  /\ Symmetric(rg.adjacency)

\* one outer iteration claims a node or empties a frontier that was not empty
Progress ==
  (GrowingConnected /\ pc = "grow" /\ rg' # rg) =>
    \/ rg'.unassigned = rg.unassigned - 1
    \/ \E r \in 1..Len(rg.frontiers) : rg.frontiers[r] # <<>> /\ rg'.frontiers[r] = <<>>

\* C19: on a connected symmetric adjacency graph with 1 <= seedCount <=
\* totalNodes the stuck-search failure of regionGrow is unreachable, every
\* outer iteration of the growth loop claims one unclaimed node or empties the
\* chosen region's frontier, and regionGrow returns.
C19_GrowthReturns ==
  /\ [](GrowingConnected => pc # "failed")
  /\ [][Progress]_vars
  /\ (GrowingConnected ~> pc = "done")

\* regionGrow has returned from a connected graph after claiming nodes, one
\* frontier having run empty on the way
C19_Witness ==
  /\ pc = "done"
  /\ Connected(rg.adjacency)
  /\ Len(rg.owner) > Len(rg.frontiers)
  /\ \E r \in 1..Len(rg.frontiers) : rg.frontiers[r] = <<>>

\* the owner regionGrow returns: every node has an owner in [0, seedCount),
\* and each region owns its seed, the seeds being distinct
OwnersComplete ==
  /\ \A n \in 1..Len(rg.owner) : rg.owner[n] \in 0..(Len(rg.frontiers) - 1)
  /\ \A r \in 1..Len(rg.seeds) : At(rg.owner, rg.seeds[r]) = r - 1
  /\ \A r \in 1..Len(rg.seeds) : \A q \in 1..Len(rg.seeds) : rg.seeds[r] = rg.seeds[q] => r = q

\* a claimed node keeps its owner
OwnersKept ==
  (pc = "grow" /\ pc' \in {"grow", "done", "failed"}) =>
    \A n \in 1..Len(rg.owner) : rg.owner[n] # -1 => rg'.owner[n] = rg.owner[n]

\* C20: whenever regionGrow returns, every node n in [0, totalNodes) has one
\* owner with owner[n] in [0, seedCount), every region in [0, seedCount) owns
\* at least one node (its distinct seed), and no node's owner is ever changed
\* once claimed.
C20_OwnersComplete ==
  /\ [](pc = "done" => OwnersComplete)
  /\ [][OwnersKept]_vars

\* regionGrow has returned with several regions, some node claimed in the loop
C20_Witness ==
  /\ pc = "done"
  /\ Len(rg.frontiers) >= 2
  /\ Len(rg.owner) >= Len(rg.frontiers) + 2

\* the nodes of allowed reached from nodes along edges that stay in allowed
RECURSIVE ReachableWithin(_, _, _)
ReachableWithin(adjacency, allowed, nodes) ==
  IF (UNION {Range(At(adjacency, n)) : n \in nodes}) \cap allowed \subseteq nodes THEN nodes
  ELSE ReachableWithin(adjacency, allowed,
                       nodes \cup ((UNION {Range(At(adjacency, n)) : n \in nodes}) \cap allowed))

\* the nodes owned by a region
Owned(owner, regionId) == {n \in 0..(Len(owner) - 1) : At(owner, n) = regionId}

\* every region is connected and contains its seed
RegionsContiguous ==
  \A r \in 1..Len(rg.seeds) :
    /\ rg.seeds[r] \in Owned(rg.owner, r - 1)
    /\ ReachableWithin(rg.adjacency, Owned(rg.owner, r - 1), {rg.seeds[r]})
         = Owned(rg.owner, r - 1)

\* a node claimed by an iteration is a neighbour of a node its region owned
ClaimedFromOwn ==
  (pc = "grow" /\ pc' \in {"grow", "done", "failed"}) =>
    \A n \in 1..Len(rg.owner) :
      (rg.owner[n] = -1 /\ rg'.owner[n] # -1) =>
        \E m \in 1..Len(rg.owner) :
          /\ rg.owner[m] = rg'.owner[n]
          /\ (n - 1) \in Range(rg.adjacency[m])

\* C21: in every state of regionGrow, and in its result, the nodes owned by
\* each region form a connected subgraph of the adjacency graph containing the
\* region's seed: a node is claimed only as a neighbour of a node already
\* owned by the claiming region.
C21_RegionsContiguous ==
  /\ [](("owner" \in DOMAIN rg) => RegionsContiguous)
  /\ [][ClaimedFromOwn]_vars

\* regionGrow has returned several regions, one of them grown by two nodes
C21_Witness ==
  /\ pc = "done"
  /\ Len(rg.seeds) >= 2
  /\ \E r \in 1..Len(rg.seeds) : Cardinality(Owned(rg.owner, r - 1)) >= 3

\* the nodes an attempt has moved
Moved == {n \in 1..Len(pt.out) : pt'.out[n] # pt.out[n]}

\* the members of a bucket of the working assignment
Members(out, bucket) == {n \in 1..Len(out) : out[n] = bucket}

\* an attempt moves nothing, or one node of a bucket with two members or more
\* to another bucket, which one of the node's neighbours is in
LegalMove ==
  (pc = "perturb" /\ pc' = "perturb") =>
    /\ Cardinality(Moved) <= 1
    /\ \A n \in Moved :
         /\ Cardinality(Members(pt.out, pt.out[n])) >= 2
         /\ pt'.out[n] # pt.out[n]
         /\ \E i \in 1..Len(pt.adjacency[n]) : pt'.out[n] = At(pt.out, pt.adjacency[n][i])

\* no bucket of base has run empty and every entry is a bucket
BucketsKept ==
  /\ \A b \in 0..(Len(pt.counts) - 1) : Members(pt.base, b) # {} => Members(pt.out, b) # {}
  /\ \A n \in 1..Len(pt.out) : pt.out[n] \in 0..(Len(pt.counts) - 1)

\* C22: every move made by perturbAssignments reassigns a single node whose
\* current bucket has at least two members to a different bucket that is, at
\* the moment of the move, the bucket of one of that node's adjacency
\* neighbours; consequently no bucket that is non-empty in base is ever emptied
\* and every entry of the result is in [0, bucketCount).
C22_LegalMoves ==
  /\ [][LegalMove]_vars
  /\ [](pc \in {"perturb", "done", "failed"} => BucketsKept)

\* perturbAssignments has returned from three buckets, two nodes moved, one of
\* the buckets left with a single member
C22_Witness ==
  /\ pc = "done"
  /\ Len(pt.counts) = 3
  /\ Cardinality(pt.changedIndices) >= 2
  /\ \E b \in 0..2 : Members(pt.base, b) # {} /\ Cardinality(Members(pt.out, b)) = 1
                     /\ Cardinality(Members(pt.base, b)) >= 2

\* the positions where the working assignment differs from base
Differing(st) == {n \in 0..(Len(st.out) - 1) : At(st.out, n) # At(st.base, n)}

\* C23: throughout perturbAssignments the tracked changed-index set equals
\* exactly the set of positions where the working assignment differs from
\* base (a move back to the base bucket removes the index); hence whenever it
\* returns, the result differs from base at exactly max(1, targetDifferences)
\* positions.
C23_TrackedDifferences ==
  /\ pc \in {"perturb", "done", "failed"} => pt.changedIndices = Differing(pt)
  /\ (pc = "done" /\ level = "perturbAssignments") =>
       Cardinality(Differing(pt)) = Max(1, pt.targetDifferences)

\* perturbAssignments has returned two differences after more attempts than
\* two moves take, a node in its base bucket having a neighbour in another
C23_Witness ==
  /\ pc = "done"
  /\ level = "perturbAssignments"
  /\ pt.targetDifferences = 2
  /\ Cardinality(Differing(pt)) = 2
  /\ pt.attempts > 2

\* max(500, base.length * 120)
Budget(st) == Max(500, Len(st.base) * 120)

\* every iteration is an attempt, and the exhausted loop throws
AttemptsCounted ==
  /\ (pc = "perturb" /\ pc' = "perturb" /\ pt' # pt) => pt'.attempts = pt.attempts + 1
  /\ (pc = "perturb" /\ pc' # "perturb" /\ level = "perturbAssignments"
        /\ Cardinality(Differing(pt)) < Max(1, pt.targetDifferences)) =>
       /\ pt.attempts = Budget(pt)
       /\ pc' = "failed"
       /\ error' = "perturbation did not reach target differences"

\* the attempts stay within the budget; a failure is an exhausted budget short
\* of the target, a return has the target's differences
WithinBudget ==
  /\ pt.attempts <= Budget(pt)
  /\ pc = "failed" =>
       /\ pt.attempts = Budget(pt)
       /\ Cardinality(Differing(pt)) < Max(1, pt.targetDifferences)
       /\ error = "perturbation did not reach target differences"
  /\ (pc = "done" /\ level = "perturbAssignments") =>
       Cardinality(Differing(pt)) >= Max(1, pt.targetDifferences)

\* C24: perturbAssignments performs at most max(500, base.length*120)
\* attempts (skipped picks count as attempts) and, if the number of differing
\* positions is still below max(1, targetDifferences) when the budget is
\* exhausted, fails with the unreached-target error; it never returns an
\* assignment with fewer differences than the target.
C24_AttemptBudget ==
  /\ [][AttemptsCounted]_vars
  /\ [](pc \in {"perturb", "done", "failed"} => WithinBudget)

\* perturbAssignments has failed on five nodes after 600 attempts
C24_Witness ==
  /\ pc = "failed"
  /\ level = "perturbAssignments"
  /\ Len(pt.base) = 5
  /\ pt.attempts = 600
  /\ Len(pt.counts) = 3
  /\ pt.targetDifferences = 2

\* perturbAssignments has failed after 500 attempts, one difference short of
\* its target
C24_WitnessShort ==
  /\ pc = "failed"
  /\ level = "perturbAssignments"
  /\ pt.attempts = 500
  /\ pt.targetDifferences = 2
  /\ Cardinality(Differing(pt)) = 1

\* the holder of title is the holder of a title of rank below whose entity
\* the mapping sends to the title's entity
HoldsVassal(w, title, below, mapping) ==
  \E v \in 1..Len(w.titles) :
    /\ w.titles[v].rank = below
    /\ w.titles[v].holderCharacterId = title.holderCharacterId
    /\ At(mapping, w.titles[v].entityId) = title.entityId

HoldersFrom(w, hierarchy) ==
  \A t \in 1..Len(w.titles) :
    /\ w.titles[t].rank = "duchy" =>
         HoldsVassal(w, w.titles[t], "county", hierarchy.countyToDuchy)
    /\ w.titles[t].rank = "kingdom" =>
         HoldsVassal(w, w.titles[t], "duchy", hierarchy.duchyToKingdom)

\* C25: in every generated output, the holder of each duchy title is the
\* holder of some county whose de facto countyToDuchy value is that duchy, and
\* the holder of each kingdom title is the holder of some duchy whose de facto
\* duchyToKingdom value is that kingdom (de jure mappings play no part in
\* holder selection).
C25_HoldersFromDeFacto == Returned => HoldersFrom(world[1], world[1].modes.deFacto)

\* an output in which a holder was picked who is no candidate under de jure
C25_Witness == Returned /\ ~HoldersFrom(world[1], world[1].modes.deJure)

\* one county, then at most one duchy, then at most one kingdom
OnePerRank(heldTitleIds) ==
  /\ Len(heldTitleIds) \in 1..3
  /\ heldTitleIds[1].rank = "county"
  /\ Len(heldTitleIds) >= 2 => heldTitleIds[2].rank = "duchy"
  /\ Len(heldTitleIds) = 3 => heldTitleIds[3].rank = "kingdom"

\* C26: in every generated output the number of characters equals the number
\* of counties and each character's heldTitleIds consists of exactly one
\* county title, followed by at most one duchy title, followed by at most one
\* kingdom title, a kingdom being held only by a character who also holds a
\* duchy; so no character ever holds two titles of the same rank and the
\* lowest-entityId tie-break of primary-title selection is never exercised.
C26_OneTitlePerRank ==
  Returned =>
    /\ Len(world[1].characters) = options.countyCount
    /\ Len(world[1].characters) = Len(world[1].modes.deJure.countyNames)
    /\ \A c \in 1..Len(world[1].characters) : OnePerRank(world[1].characters[c].heldTitleIds)
    /\ \A c \in 1..Len(world[1].characters) :
         \A i \in 1..Len(world[1].characters[c].heldTitleIds) :
           \A j \in 1..Len(world[1].characters[c].heldTitleIds) :
             world[1].characters[c].heldTitleIds[i].rank
               = world[1].characters[c].heldTitleIds[j].rank => i = j

\* an output with a character of one title, one of two and one of three
C26_Witness ==
  /\ Returned
  /\ \A n \in 1..3 : \E c \in 1..Len(world[1].characters) :
       Len(world[1].characters[c].heldTitleIds) = n

\* C27: every payload accepted by validateWorldMapData has the same number
\* of duchies and the same number of kingdoms (lengths of duchyNames and
\* kingdomNames, and of duchyToKingdom) in deJure and in deFacto.
C27_SameCounts ==
  Accepted =>
    /\ Len(validation[1].value.modes.deJure.duchyNames)
         = Len(validation[1].value.modes.deFacto.duchyNames)
    /\ Len(validation[1].value.modes.deJure.duchyToKingdom)
         = Len(validation[1].value.modes.deFacto.duchyToKingdom)
    /\ Len(validation[1].value.modes.deJure.kingdomNames)
         = Len(validation[1].value.modes.deFacto.kingdomNames)

\* no node can move: one bucket only, or one node in every bucket
NoLegalMove(st) ==
  \/ Len(st.counts) = 1
  \/ \A b \in 0..(Len(st.counts) - 1) : Cardinality(Members(st.base, b)) = 1

\* counts that pass the checks of generateWorldMapData and leave a
\* perturbation without a legal move
Pathological(o) ==
  /\ ~InvalidOptions(o)
  /\ o.kingdomCount = 1 \/ o.duchyCount = 1 \/ o.duchyCount = o.countyCount

\* a perturbAssignments call without a legal move ends only by its throw, with
\* the budget used up
ThrowsExhausted ==
  (pc = "perturb" /\ NoLegalMove(pt) /\ (pc' # "perturb" \/ level' # level)) =>
    /\ pt.attempts = Budget(pt)
    /\ pc' = "failed"
    /\ error' = "perturbation did not reach target differences"

C28_WitnessSingletons ==
  /\ pc = "failed"
  /\ options.kingdomCount > 1
  /\ options.duchyCount = options.countyCount
  /\ level = "countyToDuchy"
  /\ Len(pt.counts) > 1
  /\ NoLegalMove(pt)

\* some source edge joins a node of targetA and a node of targetB, one way or
\* the other
Joined(arguments, targetA, targetB) ==
  \E a \in 1..Len(arguments.sourceAdjacency) :
    \E i \in 1..Len(arguments.sourceAdjacency[a]) :
      \/ /\ arguments.sourceToTarget[a] = targetA
         /\ At(arguments.sourceToTarget, arguments.sourceAdjacency[a][i]) = targetB
      \/ /\ arguments.sourceToTarget[a] = targetB
         /\ At(arguments.sourceToTarget, arguments.sourceAdjacency[a][i]) = targetA

Ascending(list) == \A i \in 1..(Len(list) - 1) : list[i] < list[i + 1]

\* C29: for any source adjacency and any mapping sourceToTarget into
\* [0, targetCount), projectAdjacency returns lists such that B is in the list
\* of A exactly when A != B and some source edge (a, b) has a mapped to A and
\* b mapped to B or the reverse; the result is therefore symmetric, free of
\* self-loops, free of duplicates, and each list is sorted ascending.
C29_ProjectedEdges ==
  (level = "projectAdjacency" /\ pc = "done") =>
    /\ Len(resolved[1]) = query[1].targetCount
    /\ \A targetA \in 0..(query[1].targetCount - 1) :
         /\ \A targetB \in 0..(query[1].targetCount - 1) :
              targetB \in Range(At(resolved[1], targetA))
                <=> (targetA # targetB /\ Joined(query[1], targetA, targetB))
         /\ Range(At(resolved[1], targetA)) \subseteq 0..(query[1].targetCount - 1)
         /\ targetA \notin Range(At(resolved[1], targetA))
         /\ \A targetB \in Range(At(resolved[1], targetA)) :
              targetA \in Range(At(resolved[1], targetB))
         /\ Ascending(At(resolved[1], targetA))

\* a graph with a one-way edge has been projected, a target getting two
\* neighbours
C29_Witness ==
  /\ level = "projectAdjacency"
  /\ pc = "done"
  /\ \E a \in 1..Len(query[1].sourceAdjacency) :
       \E i \in 1..Len(query[1].sourceAdjacency[a]) :
         (a - 1) \notin Range(At(query[1].sourceAdjacency, query[1].sourceAdjacency[a][i]))
  /\ \E targetA \in 1..Len(resolved[1]) : Len(resolved[1][targetA]) = 2

\* C30: in the map store, view.selectedEntityId is non-null only while
\* selectedTileId is non-null: an entity becomes selected only through
\* selectTile (a click), never through hovering combined with a mode or level
\* switch.
C30_SelectedByClickOnly == store.view.selectedEntityId # <<>> => store.selectedTileId # NULL

=============================================================================
